---------------------------- MODULE Spec2Model ----------------------------
(***************************************************************************)
(* checkssl: the result-ordering and date-normalisation core of           *)
(* lib/helper.js (parseDate, sortResults) as a state machine.             *)
(*                                                                         *)
(* JavaScript strings are sequences of one-character strings, so that     *)
(* split, includes and Number are computed character by character.        *)
(* A JavaScript value is a record [t, v]: t is its type tag and v its      *)
(* payload, the characters of a string or the elements of an array (<<>>  *)
(* for the other types).                                                   *)
(***************************************************************************)
EXTENDS Integers, Sequences, FiniteSets, TLC

VARIABLES
  results,      \* the caller's array (or non-array value) passed to sortResults
  direction,    \* the direction argument of the latest sortResults call
                \* ("none" before the first call)
  returned,     \* what the latest sortResults call returned (undefined: nothing)
  thrown,       \* the error the latest sortResults call threw ("none": it returned)
  comparisons,  \* how many times the latest call ran the comparator
  input,        \* the array as it was when the latest call started
  prevDirection,\* the direction argument of the call before the latest one
  dateString,   \* the argument of parseDate
  parsed,       \* the outcome of parseDate(dateString) ("pending" before the call)
  compared,     \* the latest observed call of the sort comparator: its two
                \* results, its direction and its outcome
  formatInput,  \* the arguments of formatResults and separator
  formatted,    \* the outcome of formatResults ("pending" before the call)
  border,       \* the outcome of separator ("pending" before the call)
  request,      \* one call of getCertificate: its domain, its promise, its
                \* https request and the events delivered so far
  now,          \* the current time
  argv,         \* process.argv.slice(2): the command line arguments
  configFile,   \* whether ~/.checkssl exists
  homeDir,      \* whether os.homedir() finds a home directory
  trace,        \* what the run did that can be seen from outside, in order:
                \* files looked for, blocks printed, the exit
  domains,      \* the domain list of parseArguments and main
  errors,       \* the module's error list
  suppressErrorMessages,
  phase,        \* where main stands
  checks,       \* the per-domain checks of checkCertificates
  order,        \* the indices of the checks in the order they settled
  batch,        \* the promise of checkCertificates
  output        \* what displayResults was given and printed

vars == <<results, direction, returned, thrown, comparisons, input,
          prevDirection, dateString, parsed, compared,
          formatInput, formatted, border, request, now,
          argv, configFile, homeDir, trace, domains, errors,
          suppressErrorMessages, phase, checks, order, batch, output>>

sortVars == <<results, direction, returned, thrown, comparisons, input,
              prevDirection>>
parseVars == <<dateString, parsed>>
(* the variables of the other parts of the program *)
compareVars == <<compared>>
formatVars == <<formatInput, formatted, border>>
requestVars == <<request, now>>
mainVars == <<argv, configFile, homeDir, trace, domains, errors,
              suppressErrorMessages, phase, checks, order, batch, output>>
otherVars == <<compareVars, formatVars, requestVars, mainVars>>

-----------------------------------------------------------------------------
(* JavaScript values *)

Str(s) == [t |-> "string", v |-> s]
Arr(elems) == [t |-> "array", v |-> elems]
Undefined == [t |-> "undefined", v |-> <<>>]
Null == [t |-> "null", v |-> <<>>]
IsString(x) == x.t = "string"
IsArray(x) == x.t = "array"

(* Numbers: a finite integer, NaN, or +/-Infinity (v is the sign). *)
Num(n) == [kind |-> "num", v |-> n]
NaN == [kind |-> "nan", v |-> 0]
Infinity(sign) == [kind |-> "inf", v |-> sign]
isNaN(n) == n.kind = "nan"

(* n < k and n > k for a number n and an integer k, as JavaScript's < and > *)
Less(n, k) ==
  CASE n.kind = "num" -> n.v < k
    [] n.kind = "inf" -> n.v < 0
    [] OTHER -> FALSE
Greater(n, k) ==
  CASE n.kind = "num" -> n.v > k
    [] n.kind = "inf" -> n.v > 0
    [] OTHER -> FALSE

-----------------------------------------------------------------------------
(* String operations *)

DigitChars == {"0", "1", "2", "3", "4", "5", "6", "7", "8", "9"}

DigitVal(c) ==
  CASE c = "0" -> 0 [] c = "1" -> 1 [] c = "2" -> 2 [] c = "3" -> 3
    [] c = "4" -> 4 [] c = "5" -> 5 [] c = "6" -> 6 [] c = "7" -> 7
    [] c = "8" -> 8 [] c = "9" -> 9

AllDigits(s) == Len(s) > 0 /\ \A i \in 1..Len(s) : s[i] \in DigitChars

RECURSIVE DigitsValue(_)
DigitsValue(s) ==
  IF s = <<>> THEN 0
  ELSE 10 * DigitsValue(SubSeq(s, 1, Len(s) - 1)) + DigitVal(s[Len(s)])

RECURSIVE Pow10(_)
Pow10(n) == IF n = 0 THEN 1 ELSE 10 * Pow10(n - 1)

(* String.prototype.includes *)
Includes(s, sub) ==
  \E i \in 1..(Len(s) - Len(sub) + 1) : SubSeq(s, i, i + Len(sub) - 1) = sub

(* String.prototype.trim, for the white space the model's alphabet has *)
RECURSIVE TrimStart(_)
TrimStart(s) ==
  IF s # <<>> /\ s[1] = " " THEN TrimStart(Tail(s)) ELSE s
RECURSIVE TrimEnd(_)
TrimEnd(s) ==
  IF s # <<>> /\ s[Len(s)] = " " THEN TrimEnd(SubSeq(s, 1, Len(s) - 1)) ELSE s
Trim(s) == TrimEnd(TrimStart(s))

(* String.prototype.split with a one-character separator: a string with n *)
(* separators has n + 1 parts, some of them possibly empty.               *)
RECURSIVE SplitFrom(_, _, _)
SplitFrom(s, sep, cur) ==
  IF s = <<>> THEN <<cur>>
  ELSE IF s[1] = sep THEN <<cur>> \o SplitFrom(Tail(s), sep, <<>>)
  ELSE SplitFrom(Tail(s), sep, Append(cur, s[1]))
Split(s, sep) == SplitFrom(s, sep, <<>>)

(* Number(string): white space is trimmed, the empty string is 0, then an *)
(* optional sign and either Infinity, decimal digits, or decimal digits   *)
(* with a decimal exponent; anything else is NaN.                         *)
InfinityChars == <<"I", "n", "f", "i", "n", "i", "t", "y">>

ExponentAt(body) ==
  {i \in 2..(Len(body) - 1) :
     /\ body[i] \in {"e", "E"}
     /\ AllDigits(SubSeq(body, 1, i - 1))
     /\ AllDigits(SubSeq(body, i + 1, Len(body)))}

(* the value of a numeral without its sign *)
UnsignedNumber(body, sign) ==
  CASE body = InfinityChars -> Infinity(sign)
    [] AllDigits(body) -> Num(sign * DigitsValue(body))
    [] ExponentAt(body) # {} ->
         LET i == CHOOSE j \in ExponentAt(body) : TRUE
         IN Num(sign * DigitsValue(SubSeq(body, 1, i - 1))
                     * Pow10(DigitsValue(SubSeq(body, i + 1, Len(body)))))
    [] OTHER -> NaN

TrimmedNumber(t) ==
  IF t = <<>> THEN Num(0)
  ELSE IF t[1] = "-" THEN UnsignedNumber(Tail(t), -1)
  ELSE IF t[1] = "+" THEN UnsignedNumber(Tail(t), 1)
  ELSE UnsignedNumber(t, 1)

ToNumber(s) == TrimmedNumber(Trim(s))

-----------------------------------------------------------------------------
(* Date: the time value of a JavaScript Date, counted in whole days since  *)
(* 1 January 1970 of the local calendar (parseDate only builds midnights), *)
(* or NaN for an Invalid Date.                                              *)

DateOf(d) == [nan |-> FALSE, day |-> d]
InvalidDate == [nan |-> TRUE, day |-> 0]

(* TimeClip: a time value beyond 8.64e15 ms (100,000,000 days) is NaN *)
MaxTimeDays == 100000000

IsLeapYear(y) == (y % 4 = 0 /\ y % 100 # 0) \/ y % 400 = 0

DayFromYear(y) ==
  365 * (y - 1970) + ((y - 1969) \div 4) - ((y - 1901) \div 100)
    + ((y - 1601) \div 400)

DaysInMonth(y, m0) ==
  CASE m0 = 1 -> IF IsLeapYear(y) THEN 29 ELSE 28
    [] m0 \in {3, 5, 8, 10} -> 30
    [] OTHER -> 31

(* days of year y before its month m0 (0 = January) *)
RECURSIVE DaysBeforeMonth(_, _)
DaysBeforeMonth(y, m0) ==
  IF m0 = 0 THEN 0 ELSE DaysBeforeMonth(y, m0 - 1) + DaysInMonth(y, m0 - 1)

(* MakeDay(year, month, date): the month may lie outside 0..11 and the     *)
(* date outside the month; both carry over.                                *)
MakeDay(year, month, date) ==
  LET ym == year + (month \div 12)
      mn == month % 12
  IN DayFromYear(ym) + DaysBeforeMonth(ym, mn) + date - 1

TimeClip(d) ==
  IF d > MaxTimeDays \/ d < -MaxTimeDays THEN InvalidDate ELSE DateOf(d)

(* new Date(year, monthIndex, day): a year in 0..99 means 1900 + year *)
NewDate(year, monthIndex, day) ==
  IF year.kind # "num" \/ monthIndex.kind # "num" \/ day.kind # "num"
  THEN InvalidDate
  ELSE TimeClip(MakeDay(IF year.v >= 0 /\ year.v <= 99 THEN 1900 + year.v ELSE year.v,
                        monthIndex.v, day.v))

(* Date.prototype.getFullYear / getMonth / getDate of a valid Date *)
getFullYear(date) ==
  LET a == 1970 + (date.day \div 365)
      b == 1970 + (date.day \div 366)
      lo == (IF a < b THEN a ELSE b) - 1
      hi == (IF a < b THEN b ELSE a) + 1
  IN CHOOSE y \in lo..hi : DayFromYear(y) <= date.day /\ date.day < DayFromYear(y + 1)

getMonth(date) ==
  LET y == getFullYear(date)
      n == date.day - DayFromYear(y)
  IN CHOOSE m0 \in 0..11 :
       DaysBeforeMonth(y, m0) <= n /\ n < DaysBeforeMonth(y, m0) + DaysInMonth(y, m0)

getDate(date) ==
  LET y == getFullYear(date)
  IN date.day - DayFromYear(y) - DaysBeforeMonth(y, getMonth(date)) + 1

(* dateB - dateA style subtraction of two Dates: a number of days, or NaN *)
DateMinus(a, b) == IF a.nan \/ b.nan THEN NaN ELSE Num(a.day - b.day)

-----------------------------------------------------------------------------
(* parseDate (lib/helper.js) *)

Threw(msg) == [thrown |-> msg, date |-> InvalidDate]
Parsed(date) == [thrown |-> "none", date |-> date]
Pending == [thrown |-> "pending", date |-> InvalidDate]

ErrInvalidString == "Invalid date string provided"
ErrInvalidFormat == "Invalid date format"
ErrInvalidComponents == "Invalid date components"
ErrOutOfRange == "Date out of range"

(* the range check with 30 as the last day of every month *)
OutOfRangeDay30(day, month, year) ==
  \/ Less(day, 1) \/ Greater(day, 30)
  \/ Less(month, 1) \/ Greater(month, 12)
  \/ Less(year, 1000)

(* the range check of parseDate on the three numbers *)
OutOfRange(day, month, year) ==
  \/ Less(day, 1) \/ Greater(day, 31)
  \/ Less(month, 1) \/ Greater(month, 12)
  \/ Less(year, 1000)

(* month - 1 *)
MonthIndex(month) == IF month.kind = "num" THEN Num(month.v - 1) ELSE month

(* parseDate from the validation of the components on *)
parseNumbers(day, month, year) ==
  IF isNaN(day) \/ isNaN(month) \/ isNaN(year) THEN Threw(ErrInvalidComponents)
  ELSE IF OutOfRange(day, month, year) THEN Threw(ErrOutOfRange)
  ELSE Parsed(NewDate(year, MonthIndex(month), day))

(* parseDate from the check of the number of parts on *)
parseParts(parts) ==
  IF Len(parts) # 3 THEN Threw(ErrInvalidFormat)
  ELSE parseNumbers(ToNumber(parts[1]), ToNumber(parts[2]), ToNumber(parts[3]))

parseDate(x) ==
  IF ~IsString(x) \/ x.v = <<>> THEN Threw(ErrInvalidString)
  ELSE parseParts(Split(x.v, "."))

-----------------------------------------------------------------------------
(* The date strings parseDate is applied to: every three-part combination  *)
(* of the components below with "." and with "/", and strings that are not *)
(* three dot-separated numbers.                                             *)

DayParts ==
  { <<"0", "1">>, <<"0", "2">>, <<"2", "9">>, <<"3", "1">>, <<"3", "2">>,
    <<"0", "0">>, <<"-", "1">> }
MonthParts ==
  { <<"0", "1">>, <<"0", "2">>, <<"0", "4">>, <<"1", "2">>, <<"1", "3">>,
    <<"0", "0">> }
YearParts ==
  { <<"2", "0", "2", "5">>, <<"2", "0", "2", "4">>, <<"1", "0", "0", "0">>,
    <<"9", "9", "9">>, <<"3", "0", "0", "0", "0", "0">> }
Separators == {".", "/"}

Join3(a, b, c, sep) == a \o <<sep>> \o b \o <<sep>> \o c

ThreePartStrings ==
  { Join3(d, m, y, sep) : d \in DayParts, m \in MonthParts, y \in YearParts,
                          sep \in Separators }

MalformedStrings ==
  { <<>>,
    <<"0", "1", ".", "0", "1">>,
    <<"0", "1", "/", "0", "1">>,
    <<"2", "0", "2", "5", "-", "0", "1", "-", "0", "1">>,
    <<"0", "1", ".", "0", "1", ".", "2", "0", "2", "5", ".", "1">>,
    <<"a", "b", ".", "0", "1", ".", "2", "0", "2", "5">>,
    <<"0", "1", ".", "x", ".", "2", "0", "2", "5">>,
    <<"0", "1", ".", "0", "1", ".", "y">> }

(* three dot-separated parts of which one is no integer numeral: empty,   *)
(* blank, exponent notation, Infinity                                     *)
NonNumeralStrings ==
  { <<".", "0", "1", ".", "2", "0", "2", "5">>,
    <<"0", "1", ".", " ", ".", "2", "0", "2", "5">>,
    <<"0", "1", ".", "0", "1", ".">>,
    <<"0", "1", ".", "0", "1", ".", "1", "e", "3">>,
    <<"1", "e", "1", ".", "0", "1", ".", "2", "0", "2", "5">>,
    <<"0", "1", ".", "0", "1", ".", "I", "n", "f", "i", "n", "i", "t", "y">>,
    <<"I", "n", "f", "i", "n", "i", "t", "y", ".", "0", "1", ".", "2", "0", "2", "5">> }

DateStrings ==
  { Str(s) : s \in ThreePartStrings \cup MalformedStrings \cup NonNumeralStrings }
    \cup {Null, Undefined}

-----------------------------------------------------------------------------
(* The caller of parseDate: it holds a date string and applies parseDate   *)
(* to it; afterwards it may take up another string.                        *)

CallParseDate ==
  /\ parsed = Pending
  /\ parsed' = parseDate(dateString)
  /\ UNCHANGED <<dateString, sortVars, otherVars>>

NextDateString ==
  /\ parsed # Pending
  /\ \E x \in DateStrings : dateString' = x
  /\ parsed' = Pending
  /\ UNCHANGED <<sortVars, otherVars>>

(* parseDate has not been called *)
ParseIdle == dateString = Str(<<>>) /\ parsed = Pending

(* no call of the comparator has been observed *)
NotCompared ==
  [called |-> FALSE, a |-> Undefined, b |-> Undefined, dir |-> "asc",
   out |-> [thrown |-> "none", value |-> NaN, parsedArgs |-> {}]]
CompareIdle == compared = NotCompared

(* the other parts of the program have not run *)
(* formatResults and separator have not been called *)
NotFormatted == [thrown |-> "pending", lines |-> <<>>]
NoBorder == [called |-> FALSE, line |-> <<>>]
FormatIdle ==
  /\ formatInput = [results |-> Arr(<<>>), width |-> 0]
  /\ formatted = NotFormatted
  /\ border = NoBorder

(* getCertificate has not been called *)
PendingPromise == [state |-> "pending", value |-> <<>>]
NoRequest ==
  [domain |-> Undefined, called |-> FALSE, open |-> FALSE, promise |-> PendingPromise,
   destroyed |-> FALSE, socket |-> FALSE, response |-> <<>>, respondedAt |-> 0,
   events |-> {}, timedOut |-> FALSE]
RequestIdle == request = NoRequest /\ now = 0

(* the program has not started *)
NoOutput ==
  [called |-> FALSE, help |-> FALSE, info |-> FALSE, sortArg |-> <<>>,
   table |-> <<>>, separatorLine |-> <<>>, errors |-> <<>>, printed |-> <<>>]
MainNotStarted ==
  /\ trace = <<>>
  /\ domains = <<>>
  /\ errors = <<>>
  /\ suppressErrorMessages = FALSE
  /\ phase = "start"
  /\ checks = <<>>
  /\ order = <<>>
  /\ batch = PendingPromise
  /\ output = NoOutput
MainIdle == argv = <<>> /\ configFile = FALSE /\ homeDir = TRUE /\ MainNotStarted

OtherIdle == CompareIdle /\ FormatIdle /\ RequestIdle /\ MainIdle

(* sortResults has not been called *)
SortIdle ==
  /\ results = Arr(<<>>)
  /\ direction = "none"
  /\ returned = Undefined
  /\ thrown = "none"
  /\ comparisons = 0
  /\ input = Arr(<<>>)
  /\ prevDirection = "none"

InitParse ==
  /\ dateString \in DateStrings
  /\ parsed = Pending
  /\ SortIdle
  /\ OtherIdle

NextParse == CallParseDate \/ NextDateString

SpecParse == InitParse /\ [][NextParse]_vars

-----------------------------------------------------------------------------
(* The comparator of sortResults (lib/helper.js): its value is a number    *)
(* (possibly NaN), or it throws a TypeError when it reads .includes of a   *)
(* result that is not a string (those reads stand outside the try block).  *)
(* Nothing inside the outer try block throws, so its catch never runs.     *)

ErrorChars == <<"E", "r", "r", "o", "r">>

(* parsedArgs: the results the call handed to parseDate *)
CmpValue(n) == [thrown |-> "none", value |-> n, parsedArgs |-> {}]
CmpThrew(err) == [thrown |-> err, value |-> NaN, parsedArgs |-> {}]
WithParsed(c, x, y) == [c EXCEPT !.parsedArgs = {x, y}]

(* direction = 'asc' is the default of the parameter *)
EffectiveDirection(arg) == IF arg = "undefined" THEN "asc" ELSE arg

(* the date comparison putting the second of two equal dates first *)
dateOrderEqualFirst(dateA, dateB, dir) ==
  IF DateMinus(dateA, dateB) = Num(0) THEN Num(-1)
  ELSE IF dir = "desc" THEN DateMinus(dateB, dateA) ELSE DateMinus(dateA, dateB)

(* both dates are valid: sort by date *)
dateOrder(dateA, dateB, dir) ==
  IF dir = "desc" THEN DateMinus(dateB, dateA) ELSE DateMinus(dateA, dateB)

(* the try block with the signs of the one-invalid-date cases exchanged *)
compareParsedInvalidFirst(pa, pb, dir) ==
  IF pa.thrown # "none" /\ pb.thrown # "none" THEN CmpValue(Num(0))
  ELSE IF pa.thrown # "none" THEN CmpValue(Num(-1))
  ELSE IF pb.thrown # "none" THEN CmpValue(Num(1))
  ELSE CmpValue(dateOrder(pa.date, pb.date, dir))

(* the try block answering -1, not 0, for two invalid dates *)
compareParsedInvalidPairOrdered(pa, pb, dir) ==
  IF pa.thrown # "none" /\ pb.thrown # "none" THEN CmpValue(Num(-1))
  ELSE IF pa.thrown # "none" THEN CmpValue(Num(1))
  ELSE IF pb.thrown # "none" THEN CmpValue(Num(-1))
  ELSE CmpValue(dateOrder(pa.date, pb.date, dir))

(* the try block of the comparator, given the outcomes pa and pb of       *)
(* parseDate(a.result) and parseDate(b.result): aIsValid is pa.thrown =   *)
(* "none", bIsValid is pb.thrown = "none"                                 *)
compareParsed(pa, pb, dir) ==
  IF pa.thrown # "none" /\ pb.thrown # "none" THEN CmpValue(Num(0))
  ELSE IF pa.thrown # "none" THEN CmpValue(Num(1))
  ELSE IF pb.thrown # "none" THEN CmpValue(Num(-1))
  ELSE CmpValue(dateOrder(pa.date, pb.date, dir))

ErrorCharsLower == <<"e", "r", "r", "o", "r">>
IncludesErrorAnyCase(s) == Includes(s, ErrorChars) \/ Includes(s, ErrorCharsLower)

(* the comparator looking for 'Error' and 'error' alike *)
comparatorAnyCase(a, b, dir) ==
  IF ~IsString(a.result) \/ ~IsString(b.result) THEN CmpThrew("TypeError")
  ELSE IF IncludesErrorAnyCase(a.result.v) /\ IncludesErrorAnyCase(b.result.v)
  THEN CmpValue(Num(0))
  ELSE IF IncludesErrorAnyCase(a.result.v) THEN CmpValue(Num(1))
  ELSE IF IncludesErrorAnyCase(b.result.v) THEN CmpValue(Num(-1))
  ELSE WithParsed(compareParsed(parseDate(a.result), parseDate(b.result), dir),
                  a.result, b.result)

(* the comparator function passed to results.sort *)
comparator(a, b, dir) ==
  IF ~IsString(a.result) \/ ~IsString(b.result) THEN CmpThrew("TypeError")
  ELSE IF Includes(a.result.v, ErrorChars) /\ Includes(b.result.v, ErrorChars)
  THEN CmpValue(Num(0))
  ELSE IF Includes(a.result.v, ErrorChars) THEN CmpValue(Num(1))
  ELSE IF Includes(b.result.v, ErrorChars) THEN CmpValue(Num(-1))
  ELSE WithParsed(compareParsed(parseDate(a.result), parseDate(b.result), dir),
                  a.result, b.result)

-----------------------------------------------------------------------------
(* Array.prototype.sort(comparefn) as Node's engine runs it on an array of *)
(* fewer than 64 elements: the elements are copied to a work array, the    *)
(* leading run is found (a strictly descending one is reversed), the rest  *)
(* is inserted into it by binary insertion, and the work array is copied   *)
(* back.  A comparator value of NaN counts as 0.  When the comparator      *)
(* throws, the array is left as it was.                                    *)
(* The state threaded through is [a, n, err]: the work array, the number   *)
(* of comparator calls made, and the error thrown ("none" if none).        *)

SortState(a, n, err) == [a |-> a, n |-> n, err |-> err]

(* the order the sort reads off a comparator value *)
Order(c) == IF c.value.kind = "num" THEN c.value.v ELSE 0

Reverse(s) == [i \in 1..Len(s) |-> s[Len(s) + 1 - i]]

(* the length of the run that starts at a[1], given that a[1..len] is one  *)
(* and c is the comparison of a[idx] with a[idx - 1]; the result is        *)
(* [len, n, err]                                                           *)
RECURSIVE RunLength(_, _, _, _, _, _)
RunStep(a, dir, isDescending, idx, len, n, c) ==
  IF c.thrown # "none" THEN [len |-> len, n |-> n + 1, err |-> c.thrown]
  ELSE IF isDescending /\ Order(c) >= 0 THEN [len |-> len, n |-> n + 1, err |-> "none"]
  ELSE IF ~isDescending /\ Order(c) < 0 THEN [len |-> len, n |-> n + 1, err |-> "none"]
  ELSE RunLength(a, dir, isDescending, idx + 1, len + 1, n + 1)

RunLength(a, dir, isDescending, idx, len, n) ==
  IF idx > Len(a) THEN [len |-> len, n |-> n, err |-> "none"]
  ELSE RunStep(a, dir, isDescending, idx, len, n, comparator(a[idx], a[idx - 1], dir))

(* a with its leading run r made ascending: [a, n, err, run] *)
MakeRun(a, isDescending, r) ==
  [a |-> IF isDescending
         THEN Reverse(SubSeq(a, 1, r.len)) \o SubSeq(a, r.len + 1, Len(a))
         ELSE a,
   n |-> r.n, err |-> r.err, run |-> r.len]

(* the run from the first comparison c on *)
CountRun(a, dir, c) ==
  IF c.thrown # "none" THEN [a |-> a, n |-> 1, err |-> c.thrown, run |-> 1]
  ELSE MakeRun(a, Order(c) < 0, RunLength(a, dir, Order(c) < 0, 3, 2, 1))

(* CountAndMakeRun: [a, n, err, run], a with its leading run ascending *)
CountAndMakeRun(a, dir) == CountRun(a, dir, comparator(a[2], a[1], dir))

(* the binary search of one insertion: where the pivot goes in            *)
(* a[1..start-1]; c is the comparison of the pivot with a[mid]; the       *)
(* result is [pos, n, err]                                                *)
RECURSIVE SearchPosition(_, _, _, _, _, _)
SearchStep(a, dir, pivot, left, right, n, mid, c) ==
  IF c.thrown # "none" THEN [pos |-> left, n |-> n + 1, err |-> c.thrown]
  ELSE IF Order(c) < 0 THEN SearchPosition(a, dir, pivot, left, mid, n + 1)
  ELSE SearchPosition(a, dir, pivot, mid + 1, right, n + 1)

SearchAt(a, dir, pivot, left, right, n, mid) ==
  SearchStep(a, dir, pivot, left, right, n, mid, comparator(pivot, a[mid], dir))

SearchPosition(a, dir, pivot, left, right, n) ==
  IF left >= right THEN [pos |-> left, n |-> n, err |-> "none"]
  ELSE SearchAt(a, dir, pivot, left, right, n, left + ((right - left) \div 2))

(* a with a[start] moved to position pos <= start *)
InsertAt(a, start, pos) ==
  SubSeq(a, 1, pos - 1) \o <<a[start]>> \o SubSeq(a, pos, start - 1)
    \o SubSeq(a, start + 1, Len(a))

RECURSIVE BinaryInsertionSort(_, _, _, _)
InsertPivot(a, dir, start, p) ==
  IF p.err # "none" THEN SortState(a, p.n, p.err)
  ELSE BinaryInsertionSort(InsertAt(a, start, p.pos), dir, start + 1, p.n)

BinaryInsertionSort(a, dir, start, n) ==
  IF start > Len(a) THEN SortState(a, n, "none")
  ELSE InsertPivot(a, dir, start, SearchPosition(a, dir, a[start], 1, start, n))

(* the array after the sort s of the work array: a itself if it threw *)
WriteBack(a, s) == IF s.err # "none" THEN SortState(a, s.n, s.err) ELSE s

SortFromRun(a, dir, r) ==
  IF r.err # "none" THEN SortState(a, r.n, r.err)
  ELSE WriteBack(a, BinaryInsertionSort(r.a, dir, r.run + 1, r.n))

ArraySort(a, dir) ==
  IF Len(a) < 2 THEN SortState(a, 0, "none")
  ELSE SortFromRun(a, dir, CountAndMakeRun(a, dir))

-----------------------------------------------------------------------------
(* sortResults (lib/helper.js): the outcome of one call on the value x.    *)
(* The array is sorted in place and the same array is returned.            *)

ErrNotArray == "Results must be an array"

(* what a call on the array x gives, s being the outcome of x.sort(...) *)
SortOutcome(x, s) ==
  IF s.err # "none"
  THEN [thrown |-> s.err, array |-> x, returned |-> Undefined, n |-> s.n]
  ELSE [thrown |-> "none", array |-> Arr(s.a), returned |-> Arr(s.a), n |-> s.n]

(* entries whose result parses as a date or is an error marker *)
ParsesOrError(e) ==
  \/ ~IsString(e.result)
  \/ Includes(e.result.v, ErrorChars)
  \/ parseDate(e.result).thrown = "none"

(* sortResults without the Array.isArray guard: .sort of a non-array is *)
(* not a function                                                       *)
sortResultsUnguarded(x, arg) ==
  IF ~IsArray(x)
  THEN [thrown |-> "TypeError", array |-> x, returned |-> Undefined, n |-> 0]
  ELSE SortOutcome(x, ArraySort(x.v, EffectiveDirection(arg)))

(* sortResults sorting only the entries whose result parses or is an error *)
(* marker: results.filter(...).sort(...)                                   *)
sortResultsDroppingInvalid(x, arg) ==
  IF ~IsArray(x)
  THEN [thrown |-> ErrNotArray, array |-> x, returned |-> Undefined, n |-> 0]
  ELSE SortOutcome(x, ArraySort(SelectSeq(x.v, ParsesOrError), EffectiveDirection(arg)))

sortResults(x, arg) ==
  IF ~IsArray(x)
  THEN [thrown |-> ErrNotArray, array |-> x, returned |-> Undefined, n |-> 0]
  ELSE SortOutcome(x, ArraySort(x.v, EffectiveDirection(arg)))

-----------------------------------------------------------------------------
(* The batches sortResults is applied to: arrays of at most MaxLen entries, *)
(* the entry at position i carrying the i-th domain name, and two values    *)
(* that are not arrays.                                                     *)

MaxLen == 3

DomainNames == <<"a.co", "bb.org", "ccc.net", "dddd.info", "e.example.com">>

ResultValues ==
  { Str(<<"0", "1", ".", "0", "1", ".", "2", "0", "2", "5">>),
    Str(<<"0", "3", ".", "0", "3", ".", "2", "0", "2", "5">>),
    Str(<<"3", "1", ".", "0", "2", ".", "2", "0", "2", "5">>),
    Str(<<"0", "1", ".", "0", "1", ".", "3", "0", "0", "0", "0", "0">>),
    Str(<<"3", "2", ".", "0", "1", ".", "2", "0", "2", "5">>),
    Str(<<>>),
    Str(<<" ", " ", " ", "E", "r", "r", "o", "r", " ", " ">>),
    Undefined }

Batches ==
  UNION { { [i \in 1..n |-> [domain |-> DomainNames[i], result |-> f[i]]] :
              f \in [1..n -> ResultValues] } : n \in 0..MaxLen }

NotArrays == { Str(<<"n", "o", "t", " ", "a", "n", " ", "a", "r", "r", "a", "y">>), Null }

Directions == {"asc", "desc", "undefined"}

-----------------------------------------------------------------------------
(* The caller of sortResults: it holds a batch and calls sortResults on it, *)
(* any number of times and in any direction.                                *)

SortResultsReturns(arg, out) ==
  /\ input' = results
  /\ prevDirection' = direction
  /\ direction' = arg
  /\ results' = out.array
  /\ returned' = out.returned
  /\ thrown' = out.thrown
  /\ comparisons' = out.n
  /\ UNCHANGED <<parseVars, otherVars>>

CallSortResults ==
  \E arg \in Directions : SortResultsReturns(arg, sortResults(results, arg))

Init ==
  /\ results \in { Arr(b) : b \in Batches } \cup NotArrays
  /\ direction = "none"
  /\ returned = Undefined
  /\ thrown = "none"
  /\ comparisons = 0
  /\ input = results
  /\ prevDirection = "none"
  /\ ParseIdle
  /\ OtherIdle

Next == CallSortResults

Spec == Init /\ [][Next]_vars

-----------------------------------------------------------------------------
(* Vocabulary of the properties of sortResults *)

(* the tier of an entry: ErrorMarker if its result contains 'Error', Valid *)
(* if parseDate accepts it, Invalid otherwise                              *)
Tier(e) ==
  IF IsString(e.result) /\ Includes(e.result.v, ErrorChars) THEN "ErrorMarker"
  ELSE IF parseDate(e.result).thrown = "none" THEN "Valid"
  ELSE "Invalid"

TierRank(e) ==
  CASE Tier(e) = "Valid" -> 0 [] Tier(e) = "Invalid" -> 1 [] OTHER -> 2

ExpiryOf(e) == parseDate(e.result).date

(* the latest sortResults call was made on an array and returned *)
Sorted == direction # "none" /\ IsArray(input) /\ thrown = "none"

PositionIn(a, e) == CHOOSE k \in 1..Len(a) : a[k] = e

TiersInOrder(a) ==
  \A i, j \in 1..Len(a) : i < j => TierRank(a[i]) <= TierRank(a[j])

HasAllTiers(a) ==
  \A tier \in {"Valid", "Invalid", "ErrorMarker"} :
    \E i \in 1..Len(a) : Tier(a[i]) = tier

(* C1: whenever sortResults returns, in either direction, every Valid     *)
(* entry of the returned array comes before every Invalid entry and every *)
(* Invalid entry before every ErrorMarker entry.                          *)
C1_TierPartition == Sorted => TiersInOrder(returned.v)

(* C1 witness: a batch holding all three tiers out of tier order was sorted *)
C1_Witness ==
  /\ Sorted
  /\ direction = "desc"
  /\ HasAllTiers(input.v)
  /\ ~TiersInOrder(input.v)
  /\ returned.v # input.v

(* C2 (as claimed): whenever sortResults returns, any two Valid entries of *)
(* the returned array that have a date stand earliest-first when the      *)
(* direction is 'asc' or omitted and latest-first when it is 'desc'.      *)
C2_ValidTierByDate ==
  Sorted =>
    \A i, j \in 1..Len(returned.v) :
      (/\ i < j
       /\ Tier(returned.v[i]) = "Valid" /\ Tier(returned.v[j]) = "Valid"
       /\ ~ExpiryOf(returned.v[i]).nan /\ ~ExpiryOf(returned.v[j]).nan)
      => IF EffectiveDirection(direction) = "desc"
         THEN ExpiryOf(returned.v[i]).day >= ExpiryOf(returned.v[j]).day
         ELSE ExpiryOf(returned.v[i]).day <= ExpiryOf(returned.v[j]).day

(* C3: whenever sortResults returns, two Invalid entries, and two         *)
(* ErrorMarker entries, stand in the returned array in the order they had *)
(* in the argument.                                                        *)
C3_StableLowerTiers ==
  Sorted =>
    \A i, j \in 1..Len(input.v) :
      (/\ i < j
       /\ Tier(input.v[i]) = Tier(input.v[j])
       /\ Tier(input.v[i]) \in {"Invalid", "ErrorMarker"})
      => PositionIn(returned.v, input.v[i]) < PositionIn(returned.v, input.v[j])

(* C3 witness: a descending sort moved two Invalid entries that had a     *)
(* Valid entry between them                                               *)
C3_Witness ==
  /\ Sorted
  /\ direction = "desc"
  /\ \E i, j, k \in 1..Len(input.v) :
       /\ i < k /\ k < j
       /\ Tier(input.v[i]) = "Invalid" /\ Tier(input.v[j]) = "Invalid"
       /\ Tier(input.v[k]) = "Valid"
       /\ PositionIn(returned.v, input.v[i]) # i

(* C4: sorting the array a call returned once more, in the same direction, *)
(* returns the same sequence of entries.                                   *)
C4_Idempotent ==
  (/\ Sorted
   /\ prevDirection # "none"
   /\ EffectiveDirection(prevDirection) = EffectiveDirection(direction))
  => returned.v = input.v

(* C4 witness: an array that a first sort reordered was sorted a second   *)
(* time in the same direction                                             *)
C4_Witness ==
  /\ Sorted
  /\ prevDirection = direction
  /\ Len(input.v) >= 3
  /\ \E i, j \in 1..Len(input.v) :
       i < j /\ Tier(input.v[i]) = "Valid" /\ Tier(input.v[j]) = "Valid"
             /\ ExpiryOf(input.v[i]) # ExpiryOf(input.v[j])

(* C5: the array sortResults returns holds exactly the entries of its     *)
(* argument, each once and unaltered, and it is the caller's array.       *)
C5_Permutation ==
  Sorted =>
    /\ Len(returned.v) = Len(input.v)
    /\ \A i \in 1..Len(input.v) :
         Cardinality({k \in 1..Len(returned.v) : returned.v[k] = input.v[i]}) = 1
    /\ results = returned

(* C5 witness: a batch with an unparseable date and an error marker was   *)
(* reordered                                                               *)
C5_Witness ==
  /\ Sorted
  /\ returned.v # input.v
  /\ \E i \in 1..Len(input.v) : Tier(input.v[i]) = "Invalid"
  /\ \E i \in 1..Len(input.v) : Tier(input.v[i]) = "ErrorMarker"

(* C6: a call whose first argument is not an array throws 'Results must   *)
(* be an array', returns nothing and runs no comparison.                  *)
C6_NonArrayRejected ==
  (direction # "none" /\ ~IsArray(input))
  => thrown = ErrNotArray /\ comparisons = 0 /\ returned = Undefined

(* C6 witness: sortResults was called on null *)
C6_Witness == direction # "none" /\ input = Null /\ thrown # "none"

(* C7 (as claimed): a call on an array never throws, whatever its entries *)
(* hold, and an entry whose result is missing ends in the Invalid tier.   *)
C7_ArrayNeverThrows ==
  (direction # "none" /\ IsArray(input))
  => thrown = "none" /\ TiersInOrder(returned.v)

-----------------------------------------------------------------------------
(* Vocabulary of the properties of parseDate *)

(* an integer numeral: decimal digits with an optional sign *)
IsIntegerNumeral(s) ==
  /\ s # <<>>
  /\ AllDigits(IF s[1] \in {"+", "-"} THEN Tail(s) ELSE s)

IntegerOf(s) ==
  IF s[1] = "-" THEN 0 - DigitsValue(Tail(s))
  ELSE IF s[1] = "+" THEN DigitsValue(Tail(s))
  ELSE DigitsValue(s)

(* x is a string of exactly three integer numerals separated by sep *)
ThreeIntegers(x, sep) ==
  /\ IsString(x)
  /\ Len(Split(x.v, sep)) = 3
  /\ \A i \in 1..3 : IsIntegerNumeral(Split(x.v, sep)[i])

Component(x, sep, i) == IntegerOf(Split(x.v, sep)[i])

InRange(day, month, year) ==
  day >= 1 /\ day <= 31 /\ month >= 1 /\ month <= 12 /\ year >= 1000

IsCalendarDate(date, day, month, year) ==
  /\ ~date.nan
  /\ getFullYear(date) = year
  /\ getMonth(date) = month - 1
  /\ getDate(date) = day

(* C8 (as claimed): the Date parseDate returns for an accepted dd.mm.yyyy *)
(* string has exactly the day, the month and the year of the string.      *)
C8_ExactTriple ==
  (parsed.thrown = "none" /\ ThreeIntegers(dateString, "."))
  => IsCalendarDate(parsed.date, Component(dateString, ".", 1),
                    Component(dateString, ".", 2), Component(dateString, ".", 3))

(* C9 (as claimed): parseDate accepts a slash-separated mm/dd/yyyy string *)
(* whose numbers are in range and reads it month-first.                   *)
C9_SlashMonthFirst ==
  (/\ parsed # Pending
   /\ ThreeIntegers(dateString, "/")
   /\ InRange(Component(dateString, "/", 2), Component(dateString, "/", 1),
              Component(dateString, "/", 3)))
  => /\ parsed.thrown = "none"
     /\ IsCalendarDate(parsed.date, Component(dateString, "/", 2),
                       Component(dateString, "/", 1), Component(dateString, "/", 3))

(* C10: for a string of exactly three dot-separated integers, parseDate   *)
(* returns a Date if day is in 1..31, month in 1..12 and year at least    *)
(* 1000, whatever the calendar says, and throws 'Date out of range'       *)
(* otherwise.                                                              *)
C10_RangeCheckOnly ==
  (parsed # Pending /\ ThreeIntegers(dateString, "."))
  => IF InRange(Component(dateString, ".", 1), Component(dateString, ".", 2),
                Component(dateString, ".", 3))
     THEN parsed.thrown = "none"
     ELSE parsed.thrown = ErrOutOfRange

(* C10 witness: 31.02.2025 was parsed and accepted *)
C10_Witness ==
  /\ dateString = Str(<<"3", "1", ".", "0", "2", ".", "2", "0", "2", "5">>)
  /\ parsed.thrown = "none"

-----------------------------------------------------------------------------
(* C11 (as claimed): a string of three dot-separated parts, at least one  *)
(* of which is not an integer numeral, makes parseDate throw 'Invalid     *)
(* date components': it neither returns nor throws 'Date out of range'.   *)
C11_NonNumeralRejected ==
  (/\ parsed # Pending
   /\ IsString(dateString)
   /\ Len(Split(dateString.v, ".")) = 3
   /\ \E i \in 1..3 : ~IsIntegerNumeral(Split(dateString.v, ".")[i]))
  => parsed.thrown = ErrInvalidComponents

(* C13 (as claimed): when sortResults returns, the caller's array still   *)
(* holds its entries in the order it had before the call.                 *)
C13_ArgumentUntouched == Sorted => results = input

-----------------------------------------------------------------------------
(* Error markers: batches whose results are a date, an unparseable date,  *)
(* 'error' in lower case, the error sentinel, and a date followed by      *)
(* 'Error'.  Besides the calls of sortResults, single calls of its        *)
(* comparator on two entries of the array are observed.                   *)

MarkerValues ==
  { Str(<<"0", "1", ".", "0", "1", ".", "2", "0", "2", "5">>),
    Str(<<"3", "2", ".", "0", "1", ".", "2", "0", "2", "5">>),
    Str(<<"e", "r", "r", "o", "r">>),
    Str(<<" ", " ", " ", "E", "r", "r", "o", "r", " ", " ">>),
    Str(<<"0", "1", ".", "0", "1", ".", "2", "0", "2", "5", " ", "E", "r", "r", "o", "r">>) }

MarkerBatches ==
  UNION { { [i \in 1..n |-> [domain |-> DomainNames[i], result |-> f[i]]] :
              f \in [1..n -> MarkerValues] } : n \in 0..MaxLen }

ComparatorReturns(a, b, dir, out) ==
  /\ compared' = [called |-> TRUE, a |-> a.result, b |-> b.result, dir |-> dir,
                  out |-> out]
  /\ UNCHANGED <<sortVars, parseVars, formatVars, requestVars, mainVars>>

CompareEntries ==
  /\ IsArray(results)
  /\ \E i, j \in 1..Len(results.v), dir \in {"asc", "desc"} :
       /\ i # j
       /\ ComparatorReturns(results.v[i], results.v[j], dir,
                            comparator(results.v[i], results.v[j], dir))

InitMarker ==
  /\ results \in { Arr(b) : b \in MarkerBatches }
  /\ direction = "none"
  /\ returned = Undefined
  /\ thrown = "none"
  /\ comparisons = 0
  /\ input = results
  /\ prevDirection = "none"
  /\ ParseIdle
  /\ OtherIdle

NextMarker == CallSortResults \/ CompareEntries

SpecMarker == InitMarker /\ [][NextMarker]_vars

ErrorMarked(x) == IsString(x) /\ Includes(x.v, ErrorChars)

(* C12: an entry stands in the closing ErrorMarker block of the returned  *)
(* array exactly when its result contains 'Error' in this very case:      *)
(* every such entry comes after every entry without it ('error' in lower  *)
(* case and dates included).  The check goes before date parsing: a       *)
(* comparison with an 'Error' result on either side hands nothing to      *)
(* parseDate and puts that side last, any other comparison parses both.   *)
C12_ErrorMarkerBySubstring ==
  /\ Sorted =>
       \A i, j \in 1..Len(returned.v) :
         (ErrorMarked(returned.v[i].result) /\ ~ErrorMarked(returned.v[j].result))
         => j < i
  /\ compared.called =>
       /\ (ErrorMarked(compared.a) \/ ErrorMarked(compared.b))
            => compared.out.parsedArgs = {}
       /\ (ErrorMarked(compared.a) /\ ~ErrorMarked(compared.b))
            => compared.out.value = Num(1)
       /\ (~ErrorMarked(compared.a) /\ ErrorMarked(compared.b))
            => compared.out.value = Num(-1)
       /\ (~ErrorMarked(compared.a) /\ ~ErrorMarked(compared.b))
            => compared.out.parsedArgs = {compared.a, compared.b}

(* C12 witness: a batch with 'error' in lower case behind a date followed *)
(* by 'Error' was sorted, and these two results were compared             *)
C12_Witness ==
  /\ Sorted
  /\ returned.v # input.v
  /\ \E i, j \in 1..Len(input.v) :
       /\ i < j
       /\ input.v[i].result = Str(<<"0", "1", ".", "0", "1", ".", "2", "0", "2", "5", " ", "E", "r", "r", "o", "r">>)
       /\ input.v[j].result = Str(<<"e", "r", "r", "o", "r">>)
       /\ compared.called
       /\ compared.a = input.v[i].result
       /\ compared.b = input.v[j].result

-----------------------------------------------------------------------------
(* formatResults and separator                                            *)

MinPadding == 10
SeparatorExtra == 17

Max2(a, b) == IF a >= b THEN a ELSE b
Repeat(c, n) == [i \in 1..n |-> c]

(* String(x) and the template literal's conversion *)
ToStringJS(x) ==
  IF IsString(x) THEN x.v
  ELSE IF x = Undefined THEN <<"u", "n", "d", "e", "f", "i", "n", "e", "d">>
  ELSE <<"n", "u", "l", "l">>

(* s.padEnd(n): never shortens s *)
padEnd(s, n) == IF Len(s) >= n THEN s ELSE s \o Repeat(" ", n - Len(s))

formatLine(entry, minPadding) ==
  <<"|", " ">> \o padEnd(ToStringJS(entry.domain), minPadding)
    \o <<" ", "|", " ">> \o ToStringJS(entry.result) \o <<" ", "|">>

FormatThrew(msg) == [thrown |-> msg, lines |-> <<>>]
Formatted(lines) == [thrown |-> "none", lines |-> lines]

formatResults(x, maxDomainLength) ==
  IF ~IsArray(x) THEN FormatThrew(ErrNotArray)
  ELSE Formatted([i \in 1..Len(x.v) |->
                    formatLine(x.v[i], Max2(maxDomainLength, MinPadding))])

(* the separator as long as the width asks, without the minimum *)
separatorNoMinimum(maxDomainLength) ==
  Repeat("=", maxDomainLength + SeparatorExtra)

separator(maxDomainLength) ==
  Repeat("=", Max2(maxDomainLength, MinPadding) + SeparatorExtra)

(* the inputs: short and long domains, a date and the error sentinel,     *)
(* widths below, at and above the minimum and the longest domain          *)
MaxRows == 2
MaxWidth == 14

FormatDomains ==
  { Str(<<"a", ".", "c", "o">>),
    Str(<<"t", "e", "s", "t", ".", "o", "r", "g">>),
    Str(<<"e", "x", "a", "m", "p", "l", "e", ".", "c", "o", "m">>),
    Str(<<"e", ".", "e", "x", "a", "m", "p", "l", "e", ".", "c", "o", "m">>) }

FormatResultValues ==
  { Str(<<"0", "1", ".", "0", "1", ".", "2", "0", "2", "5">>),
    Str(<<" ", " ", " ", "E", "r", "r", "o", "r", " ", " ">>) }

FormatEntries ==
  { [domain |-> d, result |-> r] : d \in FormatDomains, r \in FormatResultValues }

FormatBatches == UNION { [1..n -> FormatEntries] : n \in 0..MaxRows }

CallFormatResults ==
  /\ formatted = NotFormatted
  /\ formatted' = formatResults(formatInput.results, formatInput.width)
  /\ UNCHANGED <<formatInput, border, sortVars, parseVars, compareVars, requestVars, mainVars>>

CallSeparator ==
  /\ ~border.called
  /\ border' = [called |-> TRUE, line |-> separator(formatInput.width)]
  /\ UNCHANGED <<formatInput, formatted, sortVars, parseVars, compareVars, requestVars, mainVars>>

InitFormat ==
  /\ formatInput \in
       { [results |-> x, width |-> w] :
           x \in { Arr(b) : b \in FormatBatches } \cup NotArrays,
           w \in 0..MaxWidth }
  /\ formatted = NotFormatted
  /\ border = NoBorder
  /\ SortIdle
  /\ ParseIdle
  /\ CompareIdle
  /\ RequestIdle
  /\ MainIdle

NextFormat == CallFormatResults \/ CallSeparator

SpecFormat == InitFormat /\ [][NextFormat]_vars

(* the position of the second '|' of a line *)
SecondBar(line) ==
  CHOOSE i \in 2..Len(line) :
    line[i] = "|" /\ \A j \in 2..(i - 1) : line[j] # "|"

RECURSIVE LongestDomain(_, _)
LongestDomain(rows, i) ==
  IF i > Len(rows) THEN 0
  ELSE Max2(Len(ToStringJS(rows[i].domain)), LongestDomain(rows, i + 1))

HasFormatted == formatted.thrown = "none" /\ IsArray(formatInput.results)

(* C14: every line of formatResults has its domain column padded to       *)
(* max(minColumnWidth, 10, length of the longest domain of the batch), so *)
(* the second '|' stands at that width plus 4 in every line               *)
C14_CommonColumnWidth ==
  HasFormatted =>
    \A i \in 1..Len(formatted.lines) :
      SecondBar(formatted.lines[i]) =
        Max2(Max2(formatInput.width, MinPadding),
             LongestDomain(formatInput.results.v, 1)) + 4

(* C15 as stated: separator(width) is '=' repeated width + 17 times       *)
C15_SeparatorWidthPlus17 ==
  border.called => border.line = Repeat("=", formatInput.width + SeparatorExtra)

(* C15 amended: separator(width) is '=' repeated max(width, 10) + 17      *)
(* times, so never fewer than 27                                          *)
C15_SeparatorAtLeastMinimum ==
  border.called =>
    /\ border.line = Repeat("=", Max2(formatInput.width, MinPadding) + SeparatorExtra)
    /\ Len(border.line) >= MinPadding + SeparatorExtra

(* C15 witness: the separator of a width below the minimum, as long as    *)
(* the lines formatResults gives for that width                           *)
C15_Witness ==
  /\ border.called
  /\ HasFormatted
  /\ Len(formatted.lines) > 0
  /\ formatInput.width < MinPadding
  /\ \A i \in 1..Len(formatted.lines) : Len(formatted.lines[i]) = Len(border.line)

-----------------------------------------------------------------------------
(* getCertificate: one promise, settled by whichever of the response      *)
(* callback and the 'error', 'timeout' and socket 'error' handlers runs   *)
(* first.  Times are whole numbers; a valid_to string stands for the time *)
(* value new Date gives for it, NaN when it is no date.                   *)

(* reject settling the promise again whatever its state *)
rejectOverwriting(p, error) == [state |-> "rejected", value |-> error]

(* resolve and reject of a promise: only the first call settles it *)
resolve(p, value) ==
  IF p.state = "pending" THEN [state |-> "resolved", value |-> value] ELSE p
reject(p, error) ==
  IF p.state = "pending" THEN [state |-> "rejected", value |-> error] ELSE p

(* the error messages: the text before the domain, the domain, the rest *)
ErrorOf(before, domain, after, detail) ==
  [before |-> before, domain |-> domain, after |-> after, detail |-> detail]
ErrEmptyDomain == ErrorOf("Domain must be a non-empty string", <<>>, "", "")
ErrNoCertificate(d) == ErrorOf("No valid certificate found for ", d, "", "")
ErrDateFormat == "Invalid certificate date format"
ErrProcess(d, detail) == ErrorOf("Failed to process certificate for ", d, ": ", detail)
ErrExpired(d) == ErrorOf("Certificate for ", d, " has already expired", "")
ErrConnection(d, detail) == ErrorOf("Connection failed for ", d, ": ", detail)
ErrTimeout(d) == ErrorOf("Request timeout for ", d, "", "")
ErrSocket(d, detail) == ErrorOf("Socket error for ", d, ": ", detail)

(* !domain || typeof domain !== 'string' || domain.trim().length === 0 *)
IsEmptyDomain(domain) ==
  ~IsString(domain) \/ Len(domain.v) = 0 \/ Len(Trim(domain.v)) = 0

(* certificates: null, or an object whose valid_to is undefined, the      *)
(* empty string, or a string with the time value it parses to             *)
NoCertificate == [present |-> FALSE, valid_to |-> Undefined, time |-> NaN]
Certificate(valid_to, time) == [present |-> TRUE, valid_to |-> valid_to, time |-> time]
ValidToString == Str(<<"v", "a", "l", "i", "d", "_", "t", "o">>)
Falsy(x) == x = Undefined \/ x = Null \/ (IsString(x) /\ Len(x.v) = 0)

Response(hasSocket, certificate) == [socket |-> hasSocket, certificate |-> certificate]

(* the decimal digits of a natural number *)
RECURSIVE DecimalDigits(_)
DecimalDigits(n) ==
  IF n < 10 THEN <<CHOOSE c \in DigitChars : DigitVal(c) = n>>
  ELSE Append(DecimalDigits(n \div 10), CHOOSE c \in DigitChars : DigitVal(c) = n % 10)

(* day: '2-digit' and month: '2-digit' *)
TwoDigit(n) == IF n < 10 THEN <<"0">> \o DecimalDigits(n) ELSE DecimalDigits(n % 100)

(* toLocaleDateString('en-US', ...): month/day/year *)
toLocaleDateStringUS(date) ==
  TwoDigit(getMonth(date) + 1) \o <<"/">> \o TwoDigit(getDate(date)) \o <<"/">>
    \o DecimalDigits(getFullYear(date))

(* toLocaleDateString('de-DE', {day: '2-digit', month: '2-digit',         *)
(* year: 'numeric'}): day.month.year of the local calendar day            *)
toLocaleDateString(date) ==
  TwoDigit(getDate(date)) \o <<".">> \o TwoDigit(getMonth(date) + 1) \o <<".">>
    \o DecimalDigits(getFullYear(date))

(* the instants of the clock: time 0, 1, 2, ... stand for these calendar  *)
(* days, in increasing order, the last of them the latest a Date can hold *)
Instants ==
  <<MakeDay(2026, 11, 31), MakeDay(2027, 0, 1), MakeDay(2028, 1, 29),
    MakeDay(10000, 0, 1), MaxTimeDays>>

InstantOf(time) ==
  IF time < Len(Instants) THEN DateOf(Instants[time + 1]) ELSE DateOf(MaxTimeDays)

(* the date string resolved for a certificate expiring at the given time *)
FormattedDate(time) == [formatted |-> toLocaleDateString(InstantOf(time))]

(* the response callback without the check for an expired certificate *)
responseCallbackAcceptingExpired(p, d, res, time) ==
  IF ~res.socket THEN reject(p, ErrProcess(d, "TypeError"))
  ELSE IF ~res.certificate.present \/ Falsy(res.certificate.valid_to)
  THEN reject(p, ErrNoCertificate(d))
  ELSE IF isNaN(res.certificate.time) THEN reject(p, ErrProcess(d, ErrDateFormat))
  ELSE resolve(p, FormattedDate(res.certificate.time.v))

(* the callback of https.request, called with the promise p of domain d   *)
(* and the response res at the given time                                 *)
responseCallback(p, d, res, time) ==
  IF ~res.socket THEN reject(p, ErrProcess(d, "TypeError"))
  ELSE IF ~res.certificate.present \/ Falsy(res.certificate.valid_to)
  THEN reject(p, ErrNoCertificate(d))
  ELSE IF isNaN(res.certificate.time) THEN reject(p, ErrProcess(d, ErrDateFormat))
  ELSE IF Less(res.certificate.time, time) THEN reject(p, ErrExpired(d))
  ELSE resolve(p, FormattedDate(res.certificate.time.v))

(* the 'timeout' handler without its reject *)
onTimeoutDestroyOnly(r) ==
  [r EXCEPT !.destroyed = TRUE,
            !.events = @ \cup {"timeout"},
            !.timedOut = @ \/ r.promise.state = "pending"]

(* the 'timeout' handler: req.destroy(), then reject *)
onTimeout(r) ==
  [r EXCEPT !.destroyed = TRUE,
            !.promise = reject(@, ErrTimeout(r.domain.v)),
            !.events = @ \cup {"timeout"},
            !.timedOut = @ \/ r.promise.state = "pending"]

(* the inputs *)
MaxTime == 3

RequestDomains ==
  { Str(<<"a", ".", "c", "o">>),
    Str(<<"e", "x", "a", "m", "p", "l", "e", ".", "c", "o", "m">>),
    Str(<<>>), Str(<<" ", " ">>), Null }

Certificates ==
  { NoCertificate, Certificate(Undefined, NaN), Certificate(Str(<<>>), NaN),
    Certificate(ValidToString, NaN) }
    \cup { Certificate(ValidToString, Num(time)) : time \in 0..MaxTime }

Responses ==
  { Response(TRUE, c) : c \in Certificates } \cup { Response(FALSE, NoCertificate) }

ErrorDetails == {"ECONNREFUSED", "socket hang up"}

(* getCertificate(domain): the input validation, then https.request and   *)
(* req.end()                                                              *)
CallGetCertificate ==
  /\ ~request.called
  /\ request' =
       IF IsEmptyDomain(request.domain)
       THEN [request EXCEPT !.called = TRUE, !.promise = reject(@, ErrEmptyDomain)]
       ELSE [request EXCEPT !.called = TRUE, !.open = TRUE]
  /\ UNCHANGED <<now, sortVars, parseVars, compareVars, formatVars, mainVars>>

ResponseArrives(res) ==
  /\ request' =
       [request EXCEPT !.promise = responseCallback(@, request.domain.v, res, now),
                       !.response = <<res>>,
                       !.respondedAt = now,
                       !.events = @ \cup {"response"}]
  /\ UNCHANGED <<now, sortVars, parseVars, compareVars, formatVars, mainVars>>

(* the response callback runs at most once, on a request not destroyed *)
OnResponse ==
  /\ request.open
  /\ ~request.destroyed
  /\ "response" \notin request.events
  /\ \E res \in Responses : ResponseArrives(res)

(* req.on('error'); a destroyed request that had no response emits it too *)
OnRequestError ==
  /\ request.open
  /\ "error" \notin request.events
  /\ \E detail \in ErrorDetails :
       request' =
         [request EXCEPT !.promise = reject(@, ErrConnection(request.domain.v, detail)),
                         !.events = @ \cup {"error"}]
  /\ UNCHANGED <<now, sortVars, parseVars, compareVars, formatVars, mainVars>>

(* req.on('socket'): the socket's 'error' handler is registered *)
OnSocket ==
  /\ request.open
  /\ ~request.socket
  /\ request' = [request EXCEPT !.socket = TRUE]
  /\ UNCHANGED <<now, sortVars, parseVars, compareVars, formatVars, mainVars>>

OnSocketError ==
  /\ request.open
  /\ request.socket
  /\ "socket error" \notin request.events
  /\ \E detail \in ErrorDetails :
       request' =
         [request EXCEPT !.promise = reject(@, ErrSocket(request.domain.v, detail)),
                         !.events = @ \cup {"socket error"}]
  /\ UNCHANGED <<now, sortVars, parseVars, compareVars, formatVars, mainVars>>

(* req.on('timeout'): the socket was idle for the timeout *)
OnTimeout ==
  /\ request.open
  /\ ~request.destroyed
  /\ "timeout" \notin request.events
  /\ request' = onTimeout(request)
  /\ UNCHANGED <<now, sortVars, parseVars, compareVars, formatVars, mainVars>>

Tick ==
  /\ now < MaxTime
  /\ now' = now + 1
  /\ UNCHANGED <<request, sortVars, parseVars, compareVars, formatVars, mainVars>>

InitRequest ==
  /\ request \in { [NoRequest EXCEPT !.domain = d] : d \in RequestDomains }
  /\ now = 0
  /\ SortIdle
  /\ ParseIdle
  /\ CompareIdle
  /\ FormatIdle
  /\ MainIdle

NextRequest ==
  \/ CallGetCertificate
  \/ OnResponse
  \/ OnRequestError
  \/ OnSocket
  \/ OnSocketError
  \/ OnTimeout
  \/ Tick

SpecRequest == InitRequest /\ [][NextRequest]_vars

Rejected == request.promise.state = "rejected"
Resolved == request.promise.state = "resolved"
Responded == request.response # <<>>
ResponseSeen == request.response[1]

(* C18: once the 'timeout' handler has run on a check not yet settled,    *)
(* the request is destroyed and the promise is rejected with 'Request     *)
(* timeout for <domain>', and no later event changes that                 *)
C18_TimeoutRejects ==
  request.timedOut =>
    /\ request.destroyed
    /\ Rejected
    /\ request.promise.value = ErrTimeout(request.domain.v)

(* C18 witness: the timeout fired on a pending check, and the 'error'     *)
(* event of the destroyed request came after it                           *)
C18_Witness ==
  /\ request.timedOut
  /\ Rejected
  /\ "error" \in request.events

(* the response carried a certificate whose valid_to is a date for which  *)
(* Ok(expiry, time of the callback) holds                                 *)
GoodCertificate(Ok(_, _)) ==
  /\ Responded
  /\ ResponseSeen.socket
  /\ ResponseSeen.certificate.present
  /\ ~Falsy(ResponseSeen.certificate.valid_to)
  /\ ~isNaN(ResponseSeen.certificate.time)
  /\ Ok(ResponseSeen.certificate.time.v, request.respondedAt)

NamesDomain(error) == error.domain = request.domain.v /\ Len(error.domain) > 0

Later(expiry, time) == expiry > time
NotEarlier(expiry, time) == expiry >= time

(* C19 as stated: the promise resolves only for a certificate whose       *)
(* valid_to is a date later than the current time; on every other         *)
(* response it is rejected with an error naming the domain                *)
C19_ResolvesOnlyLater ==
  /\ Resolved => GoodCertificate(Later)
  /\ (Responded /\ ~GoodCertificate(Later)) => (Rejected /\ NamesDomain(request.promise.value))

(* C19 amended: the promise resolves only for a certificate whose         *)
(* valid_to is a date not earlier than the current time; a missing        *)
(* certificate, a missing or unparseable valid_to and a valid_to earlier  *)
(* than the current time each leave it rejected with an error naming the  *)
(* domain                                                                 *)
C19_ResolvesOnlyUnexpired ==
  /\ Resolved => GoodCertificate(NotEarlier)
  /\ (Responded /\ ~GoodCertificate(NotEarlier))
       => (Rejected /\ NamesDomain(request.promise.value))

(* C19 witness: a certificate expiring exactly at the current time was    *)
(* accepted                                                               *)
C19_Witness ==
  /\ Resolved
  /\ Responded
  /\ ResponseSeen.certificate.time = Num(request.respondedAt)
  /\ request.respondedAt > 0

-----------------------------------------------------------------------------
(* Domain validation (lib/helper.js)                                      *)

DomainLengthLimit == 253

LowerLetters ==
  {"a", "b", "c", "d", "e", "f", "g", "h", "i", "j", "k", "l", "m",
   "n", "o", "p", "q", "r", "s", "t", "u", "v", "w", "x", "y", "z"}
UpperSeq ==
  <<"A", "B", "C", "D", "E", "F", "G", "H", "I", "J", "K", "L", "M",
    "N", "O", "P", "Q", "R", "S", "T", "U", "V", "W", "X", "Y", "Z">>
LowerSeq ==
  <<"a", "b", "c", "d", "e", "f", "g", "h", "i", "j", "k", "l", "m",
    "n", "o", "p", "q", "r", "s", "t", "u", "v", "w", "x", "y", "z">>

ToLowerChar(c) ==
  IF \E i \in 1..Len(UpperSeq) : UpperSeq[i] = c
  THEN LowerSeq[CHOOSE i \in 1..Len(UpperSeq) : UpperSeq[i] = c]
  ELSE c
toLowerCase(s) == [i \in 1..Len(s) |-> ToLowerChar(s[i])]

AlnumChars == LowerLetters \cup DigitChars

(* the index of the last '.' of s, 0 if there is none *)
RECURSIVE LastDot(_, _)
LastDot(s, i) == IF i = 0 THEN 0 ELSE IF s[i] = "." THEN i ELSE LastDot(s, i - 1)

(* DOMAIN_REGEX on a lower-case string whose last '.' is at k: the part   *)
(* after it is two or more letters, the part before it begins and ends    *)
(* with a letter or digit and has only letters, digits, '.' and '-'       *)
DomainRegexAt(s, k) ==
  /\ k >= 2
  /\ Len(s) - k >= 2
  /\ \A i \in (k + 1)..Len(s) : s[i] \in LowerLetters
  /\ s[1] \in AlnumChars
  /\ s[k - 1] \in AlnumChars
  /\ \A i \in 1..(k - 1) : s[i] \in AlnumChars \cup {".", "-"}

DomainRegexTest(s) == DomainRegexAt(s, LastDot(s, Len(s)))

TrimmedDomainValid(s) ==
  /\ Len(s) <= DomainLengthLimit
  /\ Len(s) >= 1
  /\ DomainRegexTest(s)

(* isValidDomain of a string *)
isValidDomain(domain) ==
  /\ Len(domain) > 0
  /\ TrimmedDomainValid(toLowerCase(Trim(domain)))

-----------------------------------------------------------------------------
(* parseArguments and readDomainsFromFile (index.js)                      *)

(* an error message: its fixed text, the string put into it, and for the  *)
(* message of a failed check the error of getCertificate                  *)
Message(text, arg) == [text |-> text, arg |-> arg, cause |-> <<>>]

(* the files: one list of domains and one directory; every other path    *)
(* does not exist                                                         *)
ListFile == <<"l", ".", "t", "x", "t">>
ListFileContent ==
  <<"a", ".", "c", "o", "\n", "#", " ", "x", "\n", "b", ".", "o", "r", "g", " ", "#", "y", "\n", "\n", "b", "a", "d", "\n", "a", ".", "c", "o">>
ConfigFileContent == <<"b", ".", "o", "r", "g", "\n">>
Directory == <<"d", "i", "r">>
Cwd == <<"/", "w", "/">>
ConfigPath == <<"/", "h", "o", "m", "e", "/", ".", "c", "h", "e", "c", "k", "s", "s", "l">>

(* path.resolve of a relative path *)
resolvePath(filePath) == Cwd \o filePath

existsSync(path, config) ==
  \/ path = resolvePath(ListFile)
  \/ path = resolvePath(Directory)
  \/ (config /\ path = ConfigPath)
(* readFileSync of a directory throws *)
ReadThrows(path) == path = resolvePath(Directory)
readFileSync(path) == IF path = ConfigPath THEN ConfigFileContent ELSE ListFileContent

(* line.split('#')[0].trim() of every line, the empty ones dropped *)
StripComment(line) == Trim(Split(line, "#")[1])
NonEmpty(s) == Len(s) > 0
FileLines(content) ==
  SelectSeq([i \in 1..Len(Split(content, "\n")) |-> StripComment(Split(content, "\n")[i])],
            NonEmpty)

(* .filter((domain) => validateDomain(domain, addError)): the valid lines, *)
(* and one error for every other line                                      *)
InvalidFormat(line) == Message("Invalid domain format: ${domain}", line)
FormatErrors(lines) ==
  [i \in 1..Len(SelectSeq(lines, LAMBDA l : ~isValidDomain(l))) |->
     InvalidFormat(SelectSeq(lines, LAMBDA l : ~isValidDomain(l))[i])]

FileRead(fileDomains, fileErrors) == [domains |-> fileDomains, errors |-> fileErrors]

ReadLines(lines) == FileRead(SelectSeq(lines, isValidDomain), FormatErrors(lines))

readDomainsFromFile(path, config) ==
  IF ~existsSync(path, config)
  THEN FileRead(<<>>, <<Message("File ${filePath} does not exist", path)>>)
  ELSE IF ReadThrows(path)
  THEN FileRead(<<>>, <<Message("Failed to read file ${filePath}: ${error.message}", path)>>)
  ELSE ReadLines(FileLines(readFileSync(path)))

DashF == <<"-", "f">>
DashD == <<"-", "d">>
DashS == <<"-", "s">>
DashH == <<"-", "h">>

(* args[i + 1] is there and not the empty string *)
HasValue(args, j) == j <= Len(args) /\ Len(args[j]) > 0

SeqIncludes(seq, x) == \E i \in 1..Len(seq) : seq[i] = x

(* what a run does that can be seen from outside *)
Event(op, arg) == [op |-> op, arg |-> arg]
Printed(block) == Event("print", block)
Exit(code) == Event("exit", code)

(* exited: the process has ended; threw: an exception is on its way to    *)
(* the catch of main                                                      *)
ParseState(ds, errs, suppress, exited) ==
  [domains |-> ds, errors |-> errs, suppress |-> suppress, exited |-> exited,
   threw |-> FALSE, trace |-> <<>>]

addError(st, message) == [st EXCEPT !.errors = Append(@, message)]

(* domains.push(...fileDomains), the errors of the read being added *)
pushFileDomains(st, read) ==
  [st EXCEPT !.domains = @ \o read.domains, !.errors = @ \o read.errors]

(* the -d case pushing whatever follows -d *)
pushDomainUnchecked(st, domain) ==
  IF ~SeqIncludes(st.domains, domain)
  THEN [st EXCEPT !.domains = Append(@, domain)]
  ELSE st

(* the -d case *)
pushDomain(st, domain) ==
  IF ~SeqIncludes(st.domains, domain) /\ isValidDomain(domain)
  THEN [st EXCEPT !.domains = Append(@, domain)]
  ELSE IF ~isValidDomain(domain)
  THEN addError(st, Message("Invalid domain: ${domain}", domain))
  ELSE st

(* the loop of parseArguments from the argument at i (counted from 1) *)
RECURSIVE parseFrom(_, _, _, _)
parseFrom(args, i, st, config) ==
  IF i > Len(args) THEN st
  ELSE IF args[i] = DashF
  THEN IF ~HasValue(args, i + 1)
       THEN parseFrom(args, i + 1,
                      addError(st, Message("Missing file path after -f option", <<>>)), config)
       ELSE parseFrom(args, i + 2,
                      pushFileDomains(st, readDomainsFromFile(resolvePath(args[i + 1]), config)),
                      config)
  ELSE IF args[i] = DashD
  THEN IF ~HasValue(args, i + 1)
       THEN parseFrom(args, i + 1,
                      addError(st, Message("Missing domain after -d option", <<>>)), config)
       ELSE parseFrom(args, i + 2, pushDomain(st, args[i + 1]), config)
  ELSE IF args[i] = DashS
  THEN parseFrom(args, i + 1, [st EXCEPT !.suppress = TRUE], config)
  ELSE IF args[i] = DashH
  THEN [st EXCEPT !.exited = TRUE, !.trace = @ \o <<Printed("help"), Exit("0")>>]
  ELSE parseFrom(args, i + 1, st, config)

(* parseArguments(args), the error list being errs and ~/.checkssl being  *)
(* there or not                                                           *)
parseArguments(args, errs, suppress, config) ==
  parseFrom(args, 1, ParseState(<<>>, errs, suppress, FALSE), config)

(* the inputs: command lines of up to MaxArgs of these arguments *)
MaxArgs == 4

Tokens ==
  { DashD, DashF, DashS, DashH, <<"a", ".", "c", "o">>, <<"b", "a", "d">>, ListFile, Directory }

CommandLines == UNION { [1..n -> Tokens] : n \in 0..MaxArgs }

ArgumentsParsed(st) ==
  /\ domains' = st.domains
  /\ errors' = st.errors
  /\ suppressErrorMessages' = st.suppress
  /\ phase' = IF st.exited THEN "exited" ELSE "parsed"
  /\ trace' = st.trace
  /\ UNCHANGED <<argv, configFile, homeDir, checks, order, batch, output,
                 sortVars, parseVars, compareVars, formatVars, requestVars>>

CallParseArguments ==
  /\ phase = "start"
  /\ ArgumentsParsed(parseArguments(argv, errors, suppressErrorMessages, configFile))

InitArgs ==
  /\ argv \in CommandLines
  /\ configFile = FALSE
  /\ homeDir = TRUE
  /\ MainNotStarted
  /\ SortIdle
  /\ ParseIdle
  /\ CompareIdle
  /\ FormatIdle
  /\ RequestIdle

NextArgs == CallParseArguments

SpecArgs == InitArgs /\ [][NextArgs]_vars

(* C20: the domain list parseArguments returns has no domain twice *)
C20_NoDuplicateDomains ==
  phase = "parsed" =>
    \A i, j \in 1..Len(domains) : domains[i] = domains[j] => i = j

-----------------------------------------------------------------------------
(* main, checkCertificates and displayResults (index.js).  The checks of  *)
(* a batch run concurrently: each settles by itself, in any order.        *)

DefaultDomain == <<"g", "o", "o", "g", "l", "e", ".", "c", "o", "m">>
ErrorSentinel == <<" ", " ", " ", "E", "r", "r", "o", "r", " ", " ">>

(* loadDefaultDomains *)
loadDefaultDomains(config) ==
  IF existsSync(ConfigPath, config) THEN readDomainsFromFile(ConfigPath, config)
  ELSE FileRead(<<>>, <<>>)

Consulted(st) == [st EXCEPT !.trace = Append(@, Event("existsSync", "~/.checkssl"))]

(* main after parseArguments looking for ~/.checkssl whenever the list is *)
(* empty                                                                  *)
withDefaultDomainsWhenEmpty(st, args, config, home) ==
  IF st.exited THEN st
  ELSE IF Len(st.domains) = 0
  THEN IF ~home THEN [st EXCEPT !.threw = TRUE]
       ELSE Consulted(pushFileDomains(st, loadDefaultDomains(config)))
  ELSE st

(* main after parseArguments: the default domains are loaded if the list  *)
(* is empty and neither -d nor -f was given; os.homedir() throws if there *)
(* is no home directory                                                   *)
withDefaultDomains(st, args, config, home) ==
  IF st.exited THEN st
  ELSE IF Len(st.domains) = 0 /\ ~SeqIncludes(args, DashD) /\ ~SeqIncludes(args, DashF)
  THEN IF ~home THEN [st EXCEPT !.threw = TRUE]
       ELSE Consulted(pushFileDomains(st, loadDefaultDomains(config)))
  ELSE st

(* the catch of main only reporting the error *)
mainCatchNoExit(st) ==
  IF st.threw
  THEN [st EXCEPT !.trace = Append(@, Event("console.error",
                                            "Unexpected error: ${error.message}"))]
  ELSE st

(* the catch of main: the error is reported and the process exits with 1 *)
mainCatch(st) ==
  IF st.threw
  THEN [st EXCEPT !.exited = TRUE,
                  !.trace = @ \o <<Event("console.error",
                                         "Unexpected error: ${error.message}"),
                                   Exit("1")>>]
  ELSE st

domainsToCheck(ds) == IF Len(ds) > 0 THEN ds ELSE <<DefaultDomain>>

(* the check of one domain, getCertificate(domain) being pending *)
PendingCheck(domain) ==
  [domain |-> domain, state |-> "pending", value |-> <<>>, settled |-> <<>>]

(* how getCertificate settled: resolved with a date string, or rejected   *)
(* with an error                                                          *)
Settlement(state, value, error) == [state |-> state, value |-> value, error |-> error]

(* `${domain}: ${error.message}` *)
CheckFailed(domain, error) ==
  [text |-> "${domain}: ${error.message}", arg |-> domain, cause |-> <<error>>]

Entry(domain, result) == [domain |-> Str(domain), result |-> Str(result)]

CheckDone(check, state, value, newErrors) ==
  [check |-> [check EXCEPT !.state = state, !.value = <<value>>], errors |-> newErrors]

(* the async function of one domain without its try/catch *)
checkDomainUncaught(check, s) ==
  IF s.state = "resolved"
  THEN CheckDone([check EXCEPT !.settled = <<s>>], "resolved",
                 Entry(check.domain, s.value), <<>>)
  ELSE CheckDone([check EXCEPT !.settled = <<s>>], "rejected", s.error[1], <<>>)

(* the async function of one domain, getCertificate having settled as s *)
checkDomain(check, s) ==
  IF s.state = "resolved"
  THEN CheckDone([check EXCEPT !.settled = <<s>>], "resolved",
                 Entry(check.domain, s.value), <<>>)
  ELSE CheckDone([check EXCEPT !.settled = <<s>>], "resolved",
                 Entry(check.domain, ErrorSentinel),
                 <<CheckFailed(check.domain, s.error[1])>>)

(* a promise fulfilled by the first check that is, with the results so far *)
promiseFirst(tasks, ord) ==
  IF \E i \in 1..Len(ord) : tasks[ord[i]].state = "rejected"
  THEN [state |-> "rejected",
        value |-> tasks[ord[CHOOSE i \in 1..Len(ord) :
                              /\ tasks[ord[i]].state = "rejected"
                              /\ \A j \in 1..(i - 1) : tasks[ord[j]].state # "rejected"]].value]
  ELSE IF Len(ord) > 0
  THEN [state |-> "resolved",
        value |-> [i \in 1..Len(ord) |-> tasks[ord[i]].value[1]]]
  ELSE PendingPromise

(* Promise.all of the checks, ord being the order they settled in: the    *)
(* first rejection if there is one, the values in the order of the checks *)
(* once all are fulfilled                                                 *)
(* Promise.all handing the results over in the order the checks settled *)
promiseAllByCompletion(tasks, ord) ==
  IF \A i \in 1..Len(tasks) : tasks[i].state = "resolved"
  THEN [state |-> "resolved",
        value |-> [k \in 1..Len(ord) |-> tasks[ord[k]].value[1]]]
  ELSE PendingPromise

promiseAll(tasks, ord) ==
  IF \E i \in 1..Len(ord) : tasks[ord[i]].state = "rejected"
  THEN [state |-> "rejected",
        value |-> tasks[ord[CHOOSE i \in 1..Len(ord) :
                              /\ tasks[ord[i]].state = "rejected"
                              /\ \A j \in 1..(i - 1) : tasks[ord[j]].state # "rejected"]].value]
  ELSE IF \A i \in 1..Len(tasks) : tasks[i].state = "resolved"
  THEN [state |-> "resolved",
        value |-> [i \in 1..Len(tasks) |-> tasks[i].value[1]]]
  ELSE PendingPromise

(* results.map(({ domain }) => domain).reduce(domainLengthReducer, 0) *)
domainLengthReducer(maxLength, domain) ==
  IF ~IsString(domain) THEN maxLength ELSE Max2(maxLength, Len(domain.v))
RECURSIVE ReduceDomainLength(_, _, _)
ReduceDomainLength(rows, i, acc) ==
  IF i > Len(rows) THEN acc
  ELSE ReduceDomainLength(rows, i + 1, domainLengthReducer(acc, rows[i].domain))

(* the table of displayResults, sorted being the outcome of sortResults *)
(* the table of displayResults printing the errors whatever -s says *)
displayTableWithErrors(rows, originalDomains, errs, suppress, sorted, maxDomainLength) ==
  [called |-> TRUE,
   help |-> Len(originalDomains) = 0,
   info |-> Len(originalDomains) = 0,
   sortArg |-> <<Arr(rows)>>,
   table |-> IF sorted.thrown = "none"
             THEN formatResults(sorted.returned, maxDomainLength).lines ELSE <<>>,
   separatorLine |-> separator(maxDomainLength),
   errors |-> errs,
   printed |-> (IF Len(originalDomains) = 0 THEN <<Printed("help")>> ELSE <<>>)
               \o <<Printed("table")>>
               \o (IF Len(errs) > 0 THEN <<Printed("errors")>> ELSE <<>>)
               \o (IF Len(originalDomains) = 0 THEN <<Printed("info")>> ELSE <<>>)]

displayTable(rows, originalDomains, errs, suppress, sorted, maxDomainLength) ==
  [called |-> TRUE,
   help |-> Len(originalDomains) = 0,
   info |-> Len(originalDomains) = 0,
   sortArg |-> <<Arr(rows)>>,
   table |-> IF sorted.thrown = "none"
             THEN formatResults(sorted.returned, maxDomainLength).lines ELSE <<>>,
   separatorLine |-> separator(maxDomainLength),
   errors |-> IF Len(errs) > 0 /\ ~suppress THEN errs ELSE <<>>,
   printed |-> (IF Len(originalDomains) = 0 THEN <<Printed("help")>> ELSE <<>>)
               \o <<Printed("table")>>
               \o (IF Len(errs) > 0 /\ ~suppress THEN <<Printed("errors")>> ELSE <<>>)
               \o (IF Len(originalDomains) = 0 THEN <<Printed("info")>> ELSE <<>>)]

displayResults(rows, originalDomains, errs, suppress) ==
  IF Len(rows) = 0
  THEN [NoOutput EXCEPT !.called = TRUE, !.help = TRUE, !.info = TRUE,
                        !.printed = <<Printed("help"), Printed("info")>>]
  ELSE displayTable(rows, originalDomains, errs, suppress,
                    sortResults(Arr(rows), "undefined"),
                    ReduceDomainLength(rows, 1, 0))

(* the inputs *)
MainCommandLines ==
  { <<>>,
    <<DashH>>,
    <<DashD, <<"a", ".", "c", "o">>>>,
    <<DashD, <<"a", ".", "c", "o">>, DashD, <<"b", "a", "d">>>>,
    <<DashS, DashF, ListFile>>,
    <<DashD, <<"b", "a", "d">>>>,
    <<DashS, DashD, <<"b", "a", "d">>>>,
    <<DashD, DashS>>,
    <<DashD, <<"b", "a", "d">>, DashH>>,
    <<DashD, <<"b", ".", "o", "r", "g">>, DashD, <<"a", ".", "c", "o">>>> }

(* the settlement of getCertificate's promise as its caller awaits it *)
SettlementOf(p) ==
  IF p.state = "resolved" THEN Settlement("resolved", p.value.formatted, <<>>)
  ELSE Settlement("rejected", <<>>, <<p.value>>)

(* the checks run at this time of the clock *)
CheckTime == MaxTime - 1

(* the ways getCertificate(domain) settles: the response callback on a    *)
(* certificate expiring at any time of the clock, or the timeout          *)
Settlements(domain) ==
  { SettlementOf(responseCallback(PendingPromise, domain,
                                  Response(TRUE, Certificate(ValidToString, Num(time))),
                                  CheckTime)) : time \in 0..MaxTime }
    \cup { SettlementOf(reject(PendingPromise, ErrTimeout(domain))) }

(* main up to its first await: the arguments are parsed, the domains to   *)
(* check are fixed and checkCertificates starts the check of each of them *)
ChecksStarted(st) ==
  /\ domains' = st.domains
  /\ errors' = st.errors
  /\ suppressErrorMessages' = st.suppress
  /\ phase' = IF st.exited THEN "exited" ELSE IF st.threw THEN "done" ELSE "checking"
  /\ checks' = IF st.exited \/ st.threw THEN <<>>
               ELSE [i \in 1..Len(domainsToCheck(st.domains)) |->
                       PendingCheck(domainsToCheck(st.domains)[i])]
  /\ trace' = st.trace
  /\ UNCHANGED <<argv, configFile, homeDir, order, batch, output,
                 sortVars, parseVars, compareVars, formatVars, requestVars>>

MainStarts ==
  /\ phase = "start"
  /\ ChecksStarted(
       mainCatch(
         withDefaultDomains(parseArguments(argv, errors, suppressErrorMessages, configFile),
                            argv, configFile, homeDir)))

CheckSettled(i, done, newOrder) ==
  /\ checks' = [checks EXCEPT ![i] = done.check]
  /\ errors' = errors \o done.errors
  /\ order' = newOrder
  /\ batch' = IF batch.state = "pending"
              THEN promiseAll([checks EXCEPT ![i] = done.check], newOrder)
              ELSE batch
  /\ UNCHANGED <<argv, configFile, homeDir, trace, domains, suppressErrorMessages,
                 phase, output,
                 sortVars, parseVars, compareVars, formatVars, requestVars>>

(* getCertificate of one pending check settles and its async function     *)
(* runs to its end                                                        *)
CheckSettles ==
  /\ phase \in {"checking", "done"}
  /\ \E i \in 1..Len(checks) :
       /\ checks[i].state = "pending"
       /\ \E s \in Settlements(checks[i].domain) :
            CheckSettled(i, checkDomain(checks[i], s), Append(order, i))

Displayed(out) ==
  /\ output' = out
  /\ phase' = "done"
  /\ trace' = trace \o out.printed
  /\ UNCHANGED <<argv, configFile, homeDir, domains, errors, suppressErrorMessages,
                 checks, order, batch,
                 sortVars, parseVars, compareVars, formatVars, requestVars>>

(* checkCertificates returns and main goes on to displayResults *)
MainDisplays ==
  /\ phase = "checking"
  /\ batch.state = "resolved"
  /\ Displayed(displayResults(batch.value, domains, errors, suppressErrorMessages))

(* main has returned: main().then(() => exit(EXIT_CODES.SUCCESS)) *)
MainExits ==
  /\ phase = "done"
  /\ phase' = "exited"
  /\ trace' = Append(trace, Exit("0"))
  /\ UNCHANGED <<argv, configFile, homeDir, domains, errors, suppressErrorMessages,
                 checks, order, batch, output,
                 sortVars, parseVars, compareVars, formatVars, requestVars>>

InitMain ==
  /\ argv \in MainCommandLines
  /\ configFile \in BOOLEAN
  /\ homeDir \in BOOLEAN
  /\ MainNotStarted
  /\ SortIdle
  /\ ParseIdle
  /\ CompareIdle
  /\ FormatIdle
  /\ RequestIdle

NextMain == MainStarts \/ CheckSettles \/ MainDisplays \/ MainExits

SpecMain == InitMain /\ [][NextMain]_vars

Failed(check) == check.settled # <<>> /\ check.settled[1].state = "rejected"
Succeeded(check) == check.settled # <<>> /\ check.settled[1].state = "resolved"

(* how often the message of a failed check like c stands in the error list *)
MessagesOf(c) ==
  Cardinality({ k \in 1..Len(errors) :
                  errors[k] = CheckFailed(c.domain, c.settled[1].error[1]) })
FailuresLike(c) ==
  Cardinality({ k \in 1..Len(checks) :
                  /\ Failed(checks[k])
                  /\ checks[k].domain = c.domain
                  /\ checks[k].settled[1] = c.settled[1] })

InRequestOrder == \A k \in 1..Len(order) : order[k] = k

(* C16: the batch never fails; once checkCertificates has its results     *)
(* there is one per requested domain, in the order of the request: the    *)
(* date of a check that succeeded, '   Error  ' for one that failed, and  *)
(* the error list has one message '<domain>: <reason>' per failed check   *)
C16_OneResultPerDomainInOrder ==
  /\ batch.state # "rejected"
  /\ batch.state = "resolved" =>
       /\ Len(batch.value) = Len(checks)
       /\ \A i \in 1..Len(checks) :
            /\ batch.value[i].domain = Str(checks[i].domain)
            /\ Succeeded(checks[i])
                 => batch.value[i].result = Str(checks[i].settled[1].value)
            /\ Failed(checks[i])
                 => /\ batch.value[i].result = Str(ErrorSentinel)
                    /\ MessagesOf(checks[i]) = FailuresLike(checks[i])
            /\ Succeeded(checks[i]) \/ Failed(checks[i])
       /\ Cardinality({ k \in 1..Len(errors) : errors[k].cause # <<>> })
            = Cardinality({ k \in 1..Len(checks) : Failed(checks[k]) })

(* C16 witness: three checks settled in another order than requested,     *)
(* one of them failed, and the batch has its results                      *)
C16_Witness ==
  /\ batch.state = "resolved"
  /\ Len(checks) >= 3
  /\ ~InRequestOrder
  /\ \E i, j \in 1..Len(checks) : Failed(checks[i]) /\ Succeeded(checks[j])

(* C17: whenever sortResults has been called, every requested domain's    *)
(* check has settled, and the array it was given holds the result of each *)
C17_SortAfterAllSettled ==
  output.sortArg # <<>> =>
    /\ \A i \in 1..Len(checks) : checks[i].state # "pending"
    /\ Len(output.sortArg[1].v) = Len(checks)
    /\ \A i \in 1..Len(checks) :
         \E k \in 1..Len(checks) : output.sortArg[1].v[k] = checks[i].value[1]
    /\ Len(checks) = Len(domainsToCheck(domains))

(* C17 witness: two or more checks settled in another order than          *)
(* requested before the results were sorted and displayed                 *)
C17_Witness ==
  /\ output.called
  /\ output.sortArg # <<>>
  /\ Len(checks) >= 2
  /\ ~InRequestOrder
  /\ Len(output.table) = Len(checks)

-----------------------------------------------------------------------------
(* The candidates of a command line: what follows each -d, and the lines  *)
(* of each readable file after -f that are not empty once the comment and *)
(* the white space around it are gone, in the order they are met          *)

FileCandidates(path, config) ==
  IF existsSync(path, config) /\ ~ReadThrows(path) THEN FileLines(readFileSync(path))
  ELSE <<>>

RECURSIVE Candidates(_, _, _)
Candidates(args, i, config) ==
  IF i > Len(args) THEN <<>>
  ELSE IF args[i] = DashF /\ HasValue(args, i + 1)
  THEN FileCandidates(resolvePath(args[i + 1]), config) \o Candidates(args, i + 2, config)
  ELSE IF args[i] = DashD /\ HasValue(args, i + 1)
  THEN <<args[i + 1]>> \o Candidates(args, i + 2, config)
  ELSE IF args[i] = DashH THEN <<>>
  ELSE Candidates(args, i + 1, config)

(* sub is what is left of seq after leaving some elements out *)
RECURSIVE IsSubsequence(_, _)
IsSubsequence(sub, seq) ==
  IF sub = <<>> THEN TRUE
  ELSE IF seq = <<>> THEN FALSE
  ELSE IF Head(sub) = Head(seq) THEN IsSubsequence(Tail(sub), Tail(seq))
  ELSE IsSubsequence(sub, Tail(seq))

IsInvalid(d) == ~isValidDomain(d)
ValidationMessages ==
  SelectSeq(errors, LAMBDA e : e.text \in {"Invalid domain: ${domain}",
                                           "Invalid domain format: ${domain}"})

(* C21: every returned domain passes isValidDomain; the candidates that   *)
(* fail it are left out with one message each, in their order, and the    *)
(* valid candidates are all there in the order they were given            *)
C21_OnlyValidDomains ==
  phase = "parsed" =>
    /\ \A i \in 1..Len(domains) : isValidDomain(domains[i])
    /\ [i \in 1..Len(ValidationMessages) |-> ValidationMessages[i].arg]
         = SelectSeq(Candidates(argv, 1, configFile), IsInvalid)
    /\ IsSubsequence(domains, SelectSeq(Candidates(argv, 1, configFile), isValidDomain))
    /\ \A i \in 1..Len(Candidates(argv, 1, configFile)) :
         isValidDomain(Candidates(argv, 1, configFile)[i])
           => SeqIncludes(domains, Candidates(argv, 1, configFile)[i])

(* C21 witness: an invalid domain after -d and an invalid line of a file  *)
(* were left out, the valid ones around them kept                          *)
C21_Witness ==
  /\ phase = "parsed"
  /\ Len(domains) >= 3
  /\ Len(ValidationMessages) >= 2
  /\ \E i \in 1..Len(argv) : argv[i] = DashF
  /\ \E i \in 1..(Len(argv) - 1) : argv[i] = DashD /\ ~isValidDomain(argv[i + 1])

-----------------------------------------------------------------------------
(* What a run showed: the blocks printed, in order, and the exit codes    *)

RECURSIVE ArgsOf(_, _)
ArgsOf(events, op) ==
  IF events = <<>> THEN <<>>
  ELSE IF Head(events).op = op THEN <<Head(events).arg>> \o ArgsOf(Tail(events), op)
  ELSE ArgsOf(Tail(events), op)

PrintedBlocks == ArgsOf(trace, "print")
ExitCodes == ArgsOf(trace, "exit")
ConfigConsulted == ArgsOf(trace, "existsSync") # <<>>

(* main has called checkCertificates *)
ChecksRequested == phase = "checking" \/ output.called

(* C22: ~/.checkssl is looked for only when the arguments hold neither -d *)
(* nor -f and parseArguments gave no domain; when the domain list is      *)
(* empty at the time of the checks, the one domain checked is google.com, *)
(* and the help is printed before the table and the hint after it         *)
C22_DefaultsOnlyWithoutDomains ==
  /\ ConfigConsulted =>
       /\ ~SeqIncludes(argv, DashD)
       /\ ~SeqIncludes(argv, DashF)
       /\ parseArguments(argv, <<>>, FALSE, configFile).domains = <<>>
  /\ (ChecksRequested /\ domains = <<>>) =>
       /\ Len(checks) = 1
       /\ checks[1].domain = DefaultDomain
  /\ (output.called /\ domains = <<>>) =>
       PrintedBlocks \in { <<"help", "table", "info">>,
                           <<"help", "table", "errors", "info">> }

(* C22 witness: without arguments and without ~/.checkssl, google.com was *)
(* checked and the table printed between the help and the hint            *)
C22_Witness ==
  /\ argv = <<>>
  /\ ConfigConsulted
  /\ output.called
  /\ output.sortArg # <<>>
  /\ output.sortArg[1].v[1].domain = Str(DefaultDomain)
  /\ PrintedBlocks = <<"help", "table", "info">>

(* -s stands where parseArguments looks for an option: it is not the     *)
(* value following -d or -f, and no -h comes before it                    *)
RECURSIVE SuppressOption(_, _)
SuppressOption(args, i) ==
  IF i > Len(args) THEN FALSE
  ELSE IF args[i] \in {DashD, DashF} /\ HasValue(args, i + 1)
  THEN SuppressOption(args, i + 2)
  ELSE IF args[i] = DashS THEN TRUE
  ELSE IF args[i] = DashH THEN FALSE
  ELSE SuppressOption(args, i + 1)

Count(seq, x) == Cardinality({ i \in 1..Len(seq) : seq[i] = x })
ErrorsAfterTable ==
  /\ Count(PrintedBlocks, "errors") = 1
  /\ \E i, j \in 1..Len(PrintedBlocks) :
       i < j /\ PrintedBlocks[i] = "table" /\ PrintedBlocks[j] = "errors"

(* C23 as stated: with -s among the arguments no collected error is       *)
(* printed; without it, a run that displays its table after collecting an *)
(* error prints the errors once, after the table                          *)
C23_SuppressedWheneverDashS ==
  /\ SeqIncludes(argv, DashS) => Count(PrintedBlocks, "errors") = 0
  /\ (~SeqIncludes(argv, DashS) /\ output.called /\ Len(errors) > 0)
       => ErrorsAfterTable

(* C23 amended: with -s in the place of an option no collected error is   *)
(* printed; otherwise a run that displays the table after collecting an   *)
(* error prints the errors once, after the table, all of them; a run that *)
(* ends before the table prints none                                      *)
C23_SuppressedByOption ==
  /\ SuppressOption(argv, 1) => Count(PrintedBlocks, "errors") = 0
  /\ (output.called /\ SuppressOption(argv, 1)) => output.errors = <<>>
  /\ (output.called /\ ~SuppressOption(argv, 1) /\ Len(errors) > 0)
       => (ErrorsAfterTable /\ output.errors = errors)
  /\ ~output.called => Count(PrintedBlocks, "errors") = 0

(* C23 witness: a run with -s as an option displayed its table after an   *)
(* error was collected                                                    *)
C23_Witness ==
  /\ output.called
  /\ SuppressOption(argv, 1)
  /\ Len(errors) > 0
  /\ "table" \in { PrintedBlocks[i] : i \in 1..Len(PrintedBlocks) }

(* an exception is raised inside main: os.homedir() throws when main     *)
(* looks for ~/.checkssl and there is no home directory                   *)
ExceptionInMain ==
  /\ phase # "start"
  /\ ~homeDir
  /\ ~SeqIncludes(argv, DashD)
  /\ ~SeqIncludes(argv, DashF)
  /\ ~SeqIncludes(argv, DashH)

UnexpectedError == Event("console.error", "Unexpected error: ${error.message}")

-----------------------------------------------------------------------------
(* Stability of sortResults among equal dates *)

(* the entries at i and j of a are Valid and expire on the same day *)
SameExpiry(a, i, j) ==
  /\ Tier(a[i]) = "Valid" /\ Tier(a[j]) = "Valid"
  /\ ~ExpiryOf(a[i]).nan /\ ~ExpiryOf(a[j]).nan
  /\ ExpiryOf(a[i]).day = ExpiryOf(a[j]).day

HasSameExpiry(a) == \E i, j \in 1..Len(a) : i < j /\ SameExpiry(a, i, j)

-----------------------------------------------------------------------------
(* The order of the Valid tier against the triple written in the string *)

(* the entry's result is an accepted date string of three numerals *)
WrittenDate(e) == Tier(e) = "Valid" /\ ThreeIntegers(e.result, ".")

(* the (year, month, day) triple written in the entry's result *)
TripleOf(e) ==
  <<Component(e.result, ".", 3), Component(e.result, ".", 2), Component(e.result, ".", 1)>>

TripleLess(s, t) ==
  \/ s[1] < t[1]
  \/ s[1] = t[1] /\ s[2] < t[2]
  \/ s[1] = t[1] /\ s[2] = t[2] /\ s[3] < t[3]

(* C26 (as claimed): whenever sortResults returns, two Valid entries whose *)
(* strings write different (year, month, day) triples do not compare as    *)
(* equal, and in ascending order the entry with the smaller triple stands  *)
(* first.                                                                  *)
C26_TripleOrder ==
  Sorted =>
    \A i, j \in 1..Len(returned.v) :
      (/\ i < j
       /\ WrittenDate(returned.v[i]) /\ WrittenDate(returned.v[j])
       /\ TripleOf(returned.v[i]) # TripleOf(returned.v[j]))
      => /\ Order(comparator(returned.v[i], returned.v[j],
                             EffectiveDirection(direction))) # 0
         /\ EffectiveDirection(direction) = "asc"
            => TripleLess(TripleOf(returned.v[i]), TripleOf(returned.v[j]))

-----------------------------------------------------------------------------
(* The single outcome of getCertificate *)

Settled(r) == r.promise.state # "pending"

(* C27: the outcome of one getCertificate call is decided exactly once:   *)
(* the first of the response, request-error, timeout and socket-error     *)
(* events settles the promise, and no step changes the state or the value *)
(* of a settled promise.                                                  *)
C27_DecidedOnce ==
  [][/\ Settled(request) => request'.promise = request.promise
     /\ (~Settled(request) /\ request'.events # request.events) => Settled(request')]_vars

(* C27 witness: the response resolved the promise, then the request       *)
(* error, the timeout and the socket error all occurred, and the promise  *)
(* is still resolved                                                      *)
C27_Witness ==
  /\ Resolved
  /\ request.events = {"response", "error", "timeout", "socket error"}
  /\ request.promise.value = FormattedDate(ResponseSeen.certificate.time.v)

-----------------------------------------------------------------------------
(* The dates getCertificate resolves with, as the table reads them *)

(* two digits, a dot, two digits, a dot and a year of four or more digits *)
IsDayMonthYear(s) ==
  /\ Len(s) >= 10
  /\ s[3] = "." /\ s[6] = "."
  /\ AllDigits(SubSeq(s, 1, 2)) /\ AllDigits(SubSeq(s, 4, 5))
  /\ AllDigits(SubSeq(s, 7, Len(s)))

CheckSucceeded(check) == check.settled # <<>> /\ check.settled[1].state = "resolved"
CheckFailedAt(check) == check.settled # <<>> /\ check.settled[1].state = "rejected"

(* C28: every value getCertificate resolves with is a dd.mm.yyyy string   *)
(* that parseDate accepts and that does not contain 'Error'; the entry of *)
(* a domain whose check succeeded is in the Valid tier, and an entry is   *)
(* in the ErrorMarker tier only if its check failed.                      *)
C28_ResolvedDatesAreValid ==
  \A i \in 1..Len(checks) :
    /\ CheckSucceeded(checks[i]) =>
         /\ IsDayMonthYear(checks[i].settled[1].value)
         /\ parseDate(Str(checks[i].settled[1].value)).thrown = "none"
         /\ ~Includes(checks[i].settled[1].value, ErrorChars)
         /\ checks[i].value[1].result = Str(checks[i].settled[1].value)
         /\ Tier(checks[i].value[1]) = "Valid"
    /\ (checks[i].value # <<>> /\ Tier(checks[i].value[1]) = "ErrorMarker")
         => CheckFailedAt(checks[i])

(* C28 witness: the table was printed for one check that failed and one   *)
(* that resolved with the latest date of the clock, a year of five or     *)
(* more digits, which parseDate reads back as the day of expiry           *)
C28_Witness ==
  /\ output.called
  /\ Len(checks) = 2
  /\ CheckFailedAt(checks[1])
  /\ Tier(checks[1].value[1]) = "ErrorMarker"
  /\ CheckSucceeded(checks[2])
  /\ checks[2].settled[1].value = FormattedDate(MaxTime).formatted
  /\ Len(checks[2].settled[1].value) > 10
  /\ ExpiryOf(checks[2].value[1]) = InstantOf(MaxTime)

-----------------------------------------------------------------------------
(* The separator against the lines of the table *)

(* every outcome is as long as the error sentinel, 10 characters *)
TenCharacterOutcomes(rows) ==
  \A i \in 1..Len(rows) : Len(ToStringJS(rows[i].result)) = Len(ErrorSentinel)

(* C29: for a batch whose outcome strings are 10 characters long and a    *)
(* width that is at least the length of the longest domain, separator of  *)
(* the width is as long as every line formatResults gives for the batch   *)
(* and the width, also for widths below 10.                               *)
C29_SeparatorMatchesLines ==
  (/\ HasFormatted
   /\ border.called
   /\ TenCharacterOutcomes(formatInput.results.v)
   /\ formatInput.width >= LongestDomain(formatInput.results.v, 1))
  => \A i \in 1..Len(formatted.lines) : Len(formatted.lines[i]) = Len(border.line)

(* C29 witness: a date row and an error row whose domains fit a width     *)
(* below 10, each line and the separator 27 characters long               *)
C29_Witness ==
  /\ HasFormatted
  /\ border.called
  /\ Len(formatted.lines) = 2
  /\ formatInput.results.v[1].result # formatInput.results.v[2].result
  /\ formatInput.results.v[1].domain # formatInput.results.v[2].domain
  /\ formatInput.width >= LongestDomain(formatInput.results.v, 1)
  /\ formatInput.width < MinPadding
  /\ \A i \in 1..2 : Len(formatted.lines[i]) = MinPadding + SeparatorExtra
  /\ Len(border.line) = MinPadding + SeparatorExtra

-----------------------------------------------------------------------------
(* The table as a function of the requested domains and their outcomes *)

(* the row of a settled check: its domain with the date it resolved with, *)
(* or with the error sentinel                                             *)
OutcomeRow(check) ==
  Entry(check.domain,
        IF Succeeded(check) THEN check.settled[1].value ELSE ErrorSentinel)

RowsInRequestOrder == [i \in 1..Len(checks) |-> OutcomeRow(checks[i])]

(* the lines of the table of the given rows *)
TableFor(rows) ==
  IF Len(rows) = 0 THEN <<>>
  ELSE formatResults(sortResults(Arr(rows), "undefined").returned,
                     ReduceDomainLength(rows, 1, 0)).lines

(* C30: the printed table is determined by the requested domains and the  *)
(* outcome of each domain's check: whatever the order in which the checks *)
(* settled, its rows are those of the outcomes taken in request order.    *)
C30_TableDeterministic ==
  output.called => output.table = TableFor(RowsInRequestOrder)

(* C30 witness: a failed check settled after a later-requested successful *)
(* one had, and the table was printed with the successful one first       *)
C30_Witness ==
  /\ output.called
  /\ Len(checks) = 2
  /\ order = <<2, 1>>
  /\ Failed(checks[1])
  /\ Succeeded(checks[2])
  /\ output.table = TableFor(<<OutcomeRow(checks[2]), OutcomeRow(checks[1])>>)
  /\ output.errors # <<>>
=============================================================================
